---- MODULE Spec2Model ----
(***************************************************************************)
(* Message-routing core of the chat server.                                *)
(*                                                                         *)
(* The repository holds two drafts of the room state:                      *)
(*   - src/hub.rs   : ChatHub owns a HashMap of Room structs and mutates   *)
(*                    them in its command loop (the draft the listener     *)
(*                    and the server binary use);                          *)
(*   - src/room.rs  : one task per room (spawn_room_task) owning members,  *)
(*                    history, the broadcast sender and the TTL sweep.     *)
(* The variable draft says which of the two a behaviour runs; the state of *)
(* the other one stays at its initial value.                               *)
(***************************************************************************)
EXTENDS Integers, Sequences, FiniteSets, TLC

(* ------------------------------ bounds -------------------------------- *)

\* largest HISTORY_LIMIT a behaviour is configured with (config.rs default: 100)
MaxHistoryLimit == 1
\* ROOM_TTL_SECS the behaviours are configured with, scaled down
\* (config.rs default: 300)
TtlSecs == 1
\* the clock runs from 0 until a room that became idle at 0 is past its TTL
MaxTime == TtlSecs + 1
\* number of commands changing a room (Join, Send, Leave) one behaviour processes
MaxCmds == 3
\* capacity of a room's broadcast channel, scaled down
\* (hub.rs:67 uses 128, room.rs:35 uses max(history_limit, 1024))
Capacity == 1

Rooms == {"a", "b"}
Names == {"alice", "bob"}
Texts == {"x"}
Stamps == {0}
Conns == {1, 2}

VARIABLES
    draft,          \* "hub" (src/hub.rs) or "room" (src/room.rs)
    history_limit,  \* Config.history_limit
    room_ttl_secs,  \* Config.room_ttl_secs
    now,            \* the clock, in seconds
    ncmds,          \* broadcasting commands processed so far
    rooms,          \* room name -> Room (hub.rs) / locals of the room task (room.rs)
    task,           \* room.rs: per room name, where its task is
    rx,             \* per connection: the broadcast::Receiver it holds, or NoRx
    observed,       \* per connection: the frames it received from its receiver
    resp,           \* the reply in flight on a resp channel, NoResp if there is none
    sent,           \* per room: the NewMessage events sent to it while it existed
    empty_since,    \* per room: when its members last became empty, if they are
    hub_rx,         \* listener.rs: the HubCommands queued on the hub's channel
    conn,           \* listener.rs: per connection, the locals of handle_ws_connection
    ws_sender,      \* listener.rs: per connection, the frames written to its transport,
                    \* each with the task that wrote it and the way it came
    nreqs,          \* listener.rs: inbound frames read by the connections so far
    answered,       \* per connection: the room each of its GetMembers named and
                    \* the members the room had when the hub served it
    codec,          \* protocol.rs: a value, its JSON text and what the text decodes to
    slabs,          \* memory_pool.rs: MemoryPool.slabs, the Slab of retired buffers
    heap,           \* memory_pool.rs: per allocation, whether it is live and its bytes
    bufs,           \* memory_pool.rs: per holder, the PooledBytes it has
    frozen          \* memory_pool.rs: per holder, the Bytes its buffer was frozen into

\* the state of the connection drivers of server/listener.rs
lvars == <<hub_rx, conn, ws_sender, nreqs, answered>>

\* the state of the parts that hub, room task and listener do not touch
xvars == <<codec, slabs, heap, bufs, frozen>>

\* the state of the buffer pool of memory_pool.rs
pvars == <<slabs, heap, bufs, frozen>>

vars == <<draft, history_limit, room_ttl_secs, now, ncmds, rooms, task, rx, observed,
          resp, sent, empty_since, hub_rx, conn, ws_sender, nreqs, answered, codec,
          slabs, heap, bufs, frozen>>

(* ------------------------------ values -------------------------------- *)

None == << >>
Some(t) == <<t>>

UserJoined(room, name) == [type |-> "UserJoined", room |-> room, name |-> name]
UserLeft(room, name) == [type |-> "UserLeft", room |-> room, name |-> name]
NewMessage(room, name, text, ts) ==
    [type |-> "NewMessage", room |-> room, name |-> name, text |-> text, ts |-> ts]

RoomList(room_names) == [type |-> "RoomList", rooms |-> room_names]
MemberList(room, members) == [type |-> "MemberList", room |-> room, members |-> members]

\* protocol.rs 7-18: ClientRequest
Join(room, name) == [type |-> "Join", room |-> room, name |-> name, text |-> ""]
Leave(room) == [type |-> "Leave", room |-> room, name |-> "", text |-> ""]
Message(room, text) == [type |-> "Message", room |-> room, name |-> "", text |-> text]
RoomListReq == [type |-> "RoomList", room |-> "", name |-> "", text |-> ""]
Members(room) == [type |-> "Members", room |-> room, name |-> "", text |-> ""]
\* what serde_json::from_str::<ClientRequest> returns for text that is no request
DecodeErr == [type |-> "Err", room |-> "", name |-> "", text |-> ""]

\* is_chat_message, were it to accept every variant
is_chat_message_AnyVariant(ev) == ev.type \in {"NewMessage", "UserJoined", "UserLeft"}

is_chat_message(ev) == ev.type = "NewMessage"

\* a u64 in JSON: its decimal digits, most significant first
DigitChars == <<"0", "1", "2", "3", "4", "5", "6", "7", "8", "9">>

RECURSIVE FormatU64(_)
FormatU64(n) ==
    IF n < 10 THEN <<DigitChars[n + 1]>>
    ELSE Append(FormatU64(n \div 10), DigitChars[(n % 10) + 1])

\* serde_json's externally tagged form {"Variant":{"field":value,...}}, as the
\* sequence of its tokens (tag, then key and value of every field in order)
Encode(ev) ==
    CASE ev.type = "UserJoined" -> <<"UserJoined", "room", ev.room, "name", ev.name>>
      [] ev.type = "UserLeft" -> <<"UserLeft", "room", ev.room, "name", ev.name>>
      [] ev.type = "NewMessage" ->
            <<"NewMessage", "room", ev.room, "name", ev.name, "text", ev.text,
              "ts", FormatU64(ev.ts)>>
      [] ev.type = "RoomList" -> <<"RoomList", "rooms">> \o ev.rooms
      [] ev.type = "MemberList" -> <<"MemberList", "room", ev.room, "members">> \o ev.members

\* the u64 a decimal token stands for
RECURSIVE ParseU64(_)
ParseU64(tok) ==
    LET digit == CHOOSE d \in 0..9 : DigitChars[d + 1] = tok[Len(tok)]
    IN  IF Len(tok) = 1 THEN digit
        ELSE 10 * ParseU64(SubSeq(tok, 1, Len(tok) - 1)) + digit

\* serde_json::from_slice::<ServerEvent>: the tag selects the variant, whose
\* fields are then read by key
Decode(frame) ==
    CASE frame[1] = "UserJoined" /\ Len(frame) = 5 /\ frame[2] = "room" /\ frame[4] = "name" ->
            UserJoined(frame[3], frame[5])
      [] frame[1] = "UserLeft" /\ Len(frame) = 5 /\ frame[2] = "room" /\ frame[4] = "name" ->
            UserLeft(frame[3], frame[5])
      [] frame[1] = "NewMessage" /\ Len(frame) = 9 /\ frame[2] = "room" /\ frame[4] = "name"
            /\ frame[6] = "text" /\ frame[8] = "ts" ->
            NewMessage(frame[3], frame[5], frame[7], ParseU64(frame[9]))
      [] frame[1] = "RoomList" /\ Len(frame) >= 2 /\ frame[2] = "rooms" ->
            RoomList(SubSeq(frame, 3, Len(frame)))
      [] frame[1] = "MemberList" /\ Len(frame) >= 4 /\ frame[2] = "room"
            /\ frame[4] = "members" ->
            MemberList(frame[3], SubSeq(frame, 5, Len(frame)))

\* a request as the text of an inbound frame (externally tagged; a unit
\* variant is its bare name)
EncodeRequest(req) ==
    CASE req.type = "Join" -> <<"Join", "room", req.room, "name", req.name>>
      [] req.type = "Leave" -> <<"Leave", "room", req.room>>
      [] req.type = "Message" -> <<"Message", "room", req.room, "text", req.text>>
      [] req.type = "RoomList" -> <<"RoomList">>
      [] req.type = "Members" -> <<"Members", "room", req.room>>

\* serde_json::from_str::<ClientRequest>(text), were the enum untagged: the
\* variant is the first one whose fields the text has
DecodeRequest_Untagged(frame) ==
    CASE frame = << >> -> DecodeErr
      [] Len(frame) = 5 /\ frame[2] = "room" /\ frame[4] = "name" -> Join(frame[3], frame[5])
      [] Len(frame) = 3 /\ frame[2] = "room" -> Leave(frame[3])
      [] Len(frame) = 5 /\ frame[2] = "room" /\ frame[4] = "text" ->
            Message(frame[3], frame[5])
      [] Len(frame) = 1 -> RoomListReq
      [] OTHER -> DecodeErr

\* serde_json::from_str::<ClientRequest>(text)
DecodeRequest(frame) ==
    CASE frame = << >> -> DecodeErr
      [] frame[1] = "Join" /\ Len(frame) = 5 /\ frame[2] = "room" /\ frame[4] = "name" ->
            Join(frame[3], frame[5])
      [] frame[1] = "Leave" /\ Len(frame) = 3 /\ frame[2] = "room" -> Leave(frame[3])
      [] frame[1] = "Message" /\ Len(frame) = 5 /\ frame[2] = "room" /\ frame[4] = "text" ->
            Message(frame[3], frame[5])
      [] frame[1] = "RoomList" /\ Len(frame) = 1 -> RoomListReq
      [] frame[1] = "Members" /\ Len(frame) = 3 /\ frame[2] = "room" -> Members(frame[3])
      [] OTHER -> DecodeErr

\* Message::Close(None)
CloseFrame == <<"Close">>

NoRx == [room |-> "", name |-> "", from |-> 0, next |-> 0,
         lagged |-> FALSE, stalled |-> FALSE]
NoResp == [kind |-> "None", room |-> "", value |-> << >>]

\* listener.rs 25-30: the locals of a connection driver that has accepted its
\* stream; req is the variant of the request it decoded last ("Err" if the
\* text was none), arg the room named by the request being served, reply what
\* arrived on the resp channel it waits on, msg_rx the unicast mailbox,
\* close_rx the one-shot close signal
NewConn ==
    [pc |-> "prejoin", req |-> "", room |-> "", name |-> "", arg |-> "", reply |-> None,
     msg_rx |-> << >>, close_rx |-> "open", push_task |-> "none",
     eof |-> FALSE, started |-> FALSE]

\* hub.rs 28-55: HubCommand, c being the connection that holds the resp channel
HubCommand(cmd, room, name, event, c) ==
    [cmd |-> cmd, room |-> room, name |-> name, event |-> event, c |-> c]
NoEvent == [type |-> ""]

\* nothing is being encoded or decoded
NoCodec == [pc |-> "idle", side |-> "", value |-> << >>, wire |-> << >>, back |-> << >>]

CodecIdle == codec = NoCodec

(* memory_pool.rs. An allocation is named by an id (0: none, the buffer has no
   storage); heap[id].bytes is what its memory holds. *)

\* allocations one behaviour makes
MaxAllocs == 2
\* largest size asked of alloc by the callers other than broadcast_event
MaxSize == 1

\* the owners of a PooledBytes or of the frame it was frozen into
Holders == {1, 2}
Allocations == 1..MaxAllocs

\* BytesMut::new(): no storage, capacity 0
BytesMut_new == [id |-> 0, cap |-> 0, len |-> 0]

\* slab entries: Occupied(buf) / Vacant(next)
Occupied(buf) == [occ |-> TRUE, buf |-> buf, next |-> 0]
Vacant(next) == [occ |-> FALSE, buf |-> BytesMut_new, next |-> next]

\* Slab::new()
Slab_new == [entries |-> << >>, next |-> 0]

NoPooled == [state |-> "none", key |-> 0, buf |-> BytesMut_new]
NoFrame == [id |-> 0, len |-> 0, refs |-> 0, json |-> << >>]

\* memory_pool.rs 70-80: the pool before its first use
PoolIdle ==
    /\ slabs = Slab_new
    /\ heap = [a \in Allocations |-> [state |-> "unused", bytes |-> << >>]]
    /\ bufs = [h \in Holders |-> NoPooled]
    /\ frozen = [h \in Holders |-> NoFrame]

\* no connection has read anything yet
ListenerIdle ==
    /\ hub_rx = << >>
    /\ conn = [c \in Conns |-> NewConn]
    /\ ws_sender = [c \in Conns |-> << >>]
    /\ nreqs = 0
    /\ answered = [c \in Conns |-> << >>]

\* all orders in which the elements of a set can be iterated
RECURSIVE Orders(_)
Orders(S) ==
    IF S = {} THEN {<< >>}
    ELSE UNION {{<<x>> \o o : o \in Orders(S \ {x})} : x \in S}

(* --------------------- broadcast channel (tokio) ---------------------- *)

\* connections holding a receiver of room's sender
Receivers(room) == {c \in Conns : rx[c] # NoRx /\ rx[c].room = room}

\* Sender::send with rx_cnt receivers: with none, the value comes back in Err
\* and is not queued
TxSend(tx, rx_cnt, ev) == IF rx_cnt = 0 THEN tx ELSE Append(tx, ev)

\* Sender::subscribe, for the connection that joined room as name: the new
\* receiver sees what is sent from now on
Subscribe(tx, room, name) ==
    [room |-> room, name |-> name, from |-> Len(tx) + 1, next |-> Len(tx) + 1,
     lagged |-> FALSE, stalled |-> FALSE]

\* position of the oldest value the channel still retains
Oldest(tx) == IF Len(tx) > Capacity THEN Len(tx) - Capacity + 1 ELSE 1

\* Receiver::recv, were the receiver to return its first value again
RecvNext_First(tx, receiver) == tx[receiver.from]

\* Receiver::recv = Ok(value): the oldest value the receiver has not seen
RecvNext(tx, receiver) == tx[receiver.next]

(* ------------------------------ ChatHub ------------------------------- *)

Room_new == [tx |-> << >>, members |-> {}, history |-> << >>, last_empty_at |-> None]

\* hub.rs 98-104, were the room inserted anew by every JoinRoom
JoinMembers_Recreate(room_ref, name) == [Room_new EXCEPT !.members = {name}]

\* hub.rs 103-104, were line 104 missing
JoinMembers_KeepIdle(room_ref, name) == [room_ref EXCEPT !.members = @ \cup {name}]

\* hub.rs 103-104: the joiner becomes a member and the room is no longer idle
JoinMembers(room_ref, name) ==
    [room_ref EXCEPT !.members = @ \cup {name}, !.last_empty_at = None]

\* hub.rs 106-107, were the two lines swapped (the order of room.rs 54-55)
JoinSubscribe_SendFirst(tx, rx_cnt, room, name) ==
    LET after == TxSend(tx, rx_cnt, UserJoined(room, name))
    IN  [receiver |-> Subscribe(after, room, name), tx |-> after]

\* hub.rs 106-107: subscribe for the joiner, hand the receiver out, then
\* broadcast UserJoined
JoinSubscribe(tx, rx_cnt, room, name) ==
    LET receiver == Subscribe(tx, room, name)
    IN  [receiver |-> receiver,
         tx |-> TxSend(tx, rx_cnt + 1, UserJoined(room, name))]

\* hub.rs 114-119, were the ring never trimmed
RecordHistory_NoTrim(history, event, limit) ==
    IF is_chat_message(event) THEN Append(history, event) ELSE history

\* hub.rs 114-119, were a full ring to drop the newest entry (pop_back)
RecordHistory_DropNewest(history, event, limit) ==
    IF is_chat_message(event)
    THEN LET pushed == Append(history, event)
         IN  IF Len(pushed) > limit THEN SubSeq(pushed, 1, limit) ELSE pushed
    ELSE history

\* hub.rs 114-119: only chat messages are recorded; the ring drops its oldest
\* entry when it grows past the limit
RecordHistory(history, event, limit) ==
    IF is_chat_message(event)
    THEN LET pushed == Append(history, event)
         IN  IF Len(pushed) > limit THEN Tail(pushed) ELSE pushed
    ELSE history

\* hub.rs 124-131: broadcast UserLeft, remove the name, note when the room
\* became empty
LeaveMembers(room_ref, rx_cnt, room, name, t) ==
    LET left == room_ref.members \ {name}
    IN  [room_ref EXCEPT
            !.tx = TxSend(@, rx_cnt, UserLeft(room, name)),
            !.members = left,
            !.last_empty_at = IF left = {} THEN Some(t) ELSE @]

\* when the members of room, `before` a command and `after` it, became empty
EmptySince(room, before, after) ==
    IF after # {} THEN None
    ELSE IF before # {} \/ empty_since[room] = None THEN Some(now)
    ELSE empty_since[room]

InitHub ==
    /\ draft = "hub"
    /\ history_limit \in 0..MaxHistoryLimit
    /\ room_ttl_secs = TtlSecs
    /\ now = 0
    /\ ncmds = 0
    /\ rooms = << >>
    /\ task = [r \in Rooms |-> "none"]
    /\ rx = [c \in Conns |-> NoRx]
    /\ observed = [c \in Conns |-> << >>]
    /\ resp = NoResp
    /\ sent = [r \in Rooms |-> << >>]
    /\ empty_since = [r \in Rooms |-> None]
    /\ ListenerIdle
    /\ CodecIdle
    /\ PoolIdle

\* the connection a Join is for: connections are interchangeable, the next
\* one accepted is the free one with the least id
NextConn(c) == rx[c] = NoRx /\ \A d \in Conns : d < c => rx[d] # NoRx

\* the name a room is created under: room names are interchangeable, the
\* next room created takes a fixed one of the names not in use
NextRoomName(room) ==
    /\ room \notin DOMAIN rooms
    /\ room = CHOOSE r \in Rooms \ DOMAIN rooms : TRUE

\* HubCommand::JoinRoom { room, name, resp }, resp held by connection c
JoinRoom(room, name, c) ==
    /\ draft = "hub"
    /\ ncmds < MaxCmds
    /\ NextConn(c)
    /\ room \in DOMAIN rooms \/ NextRoomName(room)
    /\ LET room_ref == IF room \in DOMAIN rooms THEN rooms[room] ELSE Room_new
           joined == JoinMembers(room_ref, name)
           sub == JoinSubscribe(joined.tx, Cardinality(Receivers(room)), room, name)
       IN  /\ rooms' = (room :> [joined EXCEPT !.tx = sub.tx]) @@ rooms
           /\ rx' = [rx EXCEPT ![c] = sub.receiver]
           /\ empty_since' = [empty_since EXCEPT ![room] = None]
    /\ ncmds' = ncmds + 1
    /\ resp = NoResp
    /\ resp' = NoResp
    /\ UNCHANGED lvars
    /\ UNCHANGED xvars
    /\ UNCHANGED <<draft, history_limit, room_ttl_secs, now, task, observed, sent>>

\* HubCommand::SendMsg { room, event }
SendMsg(room, event) ==
    /\ draft = "hub"
    /\ ncmds < MaxCmds
    /\ IF room \in DOMAIN rooms
       THEN /\ rooms' = [rooms EXCEPT ![room] =
                   [@ EXCEPT
                       !.tx = TxSend(@, Cardinality(Receivers(room)), event),
                       !.history = RecordHistory(@, event, history_limit)]]
            /\ sent' = IF event.type = "NewMessage"
                       THEN [sent EXCEPT ![room] = Append(@, event)]
                       ELSE sent
            /\ ncmds' = ncmds + 1
       ELSE UNCHANGED <<rooms, sent, ncmds>>
    /\ resp = NoResp
    /\ resp' = NoResp
    /\ UNCHANGED lvars
    /\ UNCHANGED xvars
    /\ UNCHANGED <<draft, history_limit, room_ttl_secs, now, task, rx, observed,
                   empty_since>>

\* HubCommand::LeaveRoom { room, name }
LeaveRoom(room, name) ==
    /\ draft = "hub"
    /\ ncmds < MaxCmds
    /\ IF room \in DOMAIN rooms
       THEN /\ rooms' = [rooms EXCEPT ![room] =
                   LeaveMembers(@, Cardinality(Receivers(room)), room, name, now)]
            /\ empty_since' = [empty_since EXCEPT ![room] =
                   EmptySince(room, rooms[room].members, rooms'[room].members)]
            /\ ncmds' = ncmds + 1
       ELSE UNCHANGED <<rooms, empty_since, ncmds>>
    /\ resp = NoResp
    /\ resp' = NoResp
    /\ UNCHANGED lvars
    /\ UNCHANGED xvars
    /\ UNCHANGED <<draft, history_limit, room_ttl_secs, now, task, rx, observed, sent>>

\* HubCommand::GetRoomList { resp }: the keys of the map, in iteration order
GetRoomList ==
    /\ draft = "hub"
    /\ resp = NoResp
    /\ \E list \in Orders(DOMAIN rooms) :
          resp' = [kind |-> "RoomList", room |-> "", value |-> list]
    /\ UNCHANGED lvars
    /\ UNCHANGED xvars
    /\ UNCHANGED <<draft, history_limit, room_ttl_secs, now, ncmds, rooms, task, rx,
                   observed, sent, empty_since>>

\* HubCommand::GetMembers { room, resp }
GetMembers(room) ==
    /\ draft = "hub"
    /\ resp = NoResp
    /\ \E list \in Orders(IF room \in DOMAIN rooms THEN rooms[room].members ELSE {}) :
          resp' = [kind |-> "Members", room |-> room, value |-> list]
    /\ UNCHANGED lvars
    /\ UNCHANGED xvars
    /\ UNCHANGED <<draft, history_limit, room_ttl_secs, now, ncmds, rooms, task, rx,
                   observed, sent, empty_since>>

\* HubCommand::GetHistory { room, resp }
GetHistory(room) ==
    /\ draft = "hub"
    /\ resp = NoResp
    /\ resp' = [kind |-> "History", room |-> room,
                value |-> IF room \in DOMAIN rooms THEN rooms[room].history ELSE << >>]
    /\ UNCHANGED lvars
    /\ UNCHANGED xvars
    /\ UNCHANGED <<draft, history_limit, room_ttl_secs, now, ncmds, rooms, task, rx,
                   observed, sent, empty_since>>

(* ------------------- push loop of a connection ------------------------ *)

\* listener.rs 103-108, broadcast_rx.recv() = Ok(ev): the event is serialized
\* and written to the transport
PushRecv(c) ==
    /\ draft = "hub"
    /\ rx[c] # NoRx
    /\ ~rx[c].stalled
    /\ LET tx == rooms[rx[c].room].tx
       IN  /\ rx[c].next <= Len(tx)
           /\ rx[c].next >= Oldest(tx)
           /\ observed' = [observed EXCEPT ![c] = Append(@, Encode(RecvNext(tx, rx[c])))]
           /\ rx' = [rx EXCEPT ![c].next = @ + 1]
    /\ resp = NoResp
    /\ resp' = NoResp
    /\ UNCHANGED lvars
    /\ UNCHANGED xvars
    /\ UNCHANGED <<draft, history_limit, room_ttl_secs, now, ncmds, rooms, task, sent,
                   empty_since>>

\* listener.rs 103, broadcast_rx.recv() = Err(Lagged): the receiver skips to
\* the oldest retained value; the pattern Ok(ev) does not match, so this
\* select! goes on waiting for the mailbox alone
PushLagged(c) ==
    /\ draft = "hub"
    /\ rx[c] # NoRx
    /\ ~rx[c].stalled
    /\ LET tx == rooms[rx[c].room].tx
       IN  /\ rx[c].next < Oldest(tx)
           /\ rx' = [rx EXCEPT ![c] = [@ EXCEPT !.next = Oldest(tx),
                                                !.lagged = TRUE,
                                                !.stalled = TRUE]]
    /\ resp = NoResp
    /\ resp' = NoResp
    /\ UNCHANGED lvars
    /\ UNCHANGED xvars
    /\ UNCHANGED <<draft, history_limit, room_ttl_secs, now, ncmds, rooms, task,
                   observed, sent, empty_since>>

\* listener.rs 93-116, 166: the push task ends and drops its receiver; the
\* connection is gone (its id stands for a fresh connection afterwards)
PushEnd(c) ==
    /\ draft = "hub"
    /\ rx[c] # NoRx
    /\ rx' = [rx EXCEPT ![c] = NoRx]
    /\ observed' = [observed EXCEPT ![c] = << >>]
    /\ resp = NoResp
    /\ resp' = NoResp
    /\ UNCHANGED lvars
    /\ UNCHANGED xvars
    /\ UNCHANGED <<draft, history_limit, room_ttl_secs, now, ncmds, rooms, task, sent,
                   empty_since>>

\* the clock advances; the only thing ever read from it is whether the time
\* elapsed since a last_empty_at exceeds the TTL, so the clock is left alone
\* while no room is idle within its TTL
Tick ==
    /\ now < MaxTime
    /\ \E r \in DOMAIN rooms : /\ rooms[r].last_empty_at # None
                              /\ now - rooms[r].last_empty_at[1] <= room_ttl_secs
    /\ now' = now + 1
    /\ resp = NoResp
    /\ resp' = NoResp
    /\ UNCHANGED lvars
    /\ UNCHANGED xvars
    /\ UNCHANGED <<draft, history_limit, room_ttl_secs, ncmds, rooms, task, rx,
                   observed, sent, empty_since>>

\* the events a Send can carry: chat messages and a system event
SendEvents(room) ==
    {NewMessage(room, n, t, ts) : n \in Names, t \in Texts, ts \in Stamps}
        \cup {UserJoined(room, "alice")}

NextHub ==
    \/ \E room \in Rooms, name \in Names, c \in Conns : JoinRoom(room, name, c)
    \/ \E room \in Rooms : \E event \in SendEvents(room) : SendMsg(room, event)
    \/ \E room \in Rooms, name \in Names : LeaveRoom(room, name)
    \/ GetRoomList
    \/ \E room \in Rooms : GetMembers(room)
    \/ \E room \in Rooms : GetHistory(room)
    \/ \E c \in Conns : PushRecv(c)
    \/ \E c \in Conns : PushLagged(c)
    \/ \E c \in Conns : PushEnd(c)

(* ----------------------- room task (room.rs) --------------------------- *)

\* room.rs 41-43: the locals of a freshly spawned room task, and its sender
RoomTask_new == [tx |-> << >>, members |-> {}, history |-> << >>, last_empty_at |-> None]

\* room.rs 96-118: the event is encoded once into a frame, the frame is sent
\* on the broadcast channel and, for a chat message, pushed on the history
\* ring, which drops its oldest entry when it grows past cap
broadcast_event(room_ref, rx_cnt, cap, event) ==
    LET is_chat == event.type = "NewMessage"
        frame == Encode(event)
        pushed == Append(room_ref.history, frame)
    IN  [room_ref EXCEPT
            !.tx = TxSend(@, rx_cnt, frame),
            !.history = IF is_chat
                        THEN IF Len(pushed) > cap THEN Tail(pushed) ELSE pushed
                        ELSE @]

\* room.rs 49-56: RoomCmd::Join; the receiver is created after UserJoined
\* has been sent
RoomJoinCmd(room_ref, rx_cnt, cap, room, name) ==
    LET joined == [room_ref EXCEPT !.members = @ \cup {name}, !.last_empty_at = None]
        after == broadcast_event(joined, rx_cnt, cap, UserJoined(room, name))
    IN  [room_ref |-> after, receiver |-> Subscribe(after.tx, room, name)]

\* room.rs 60-67: RoomCmd::Leave
RoomLeaveCmd(room_ref, rx_cnt, cap, room, name, t) ==
    LET removed == [room_ref EXCEPT !.members = @ \ {name}]
        after == broadcast_event(removed, rx_cnt, cap, UserLeft(room, name))
    IN  [after EXCEPT !.last_empty_at = IF after.members = {} THEN Some(t) ELSE @]

\* room.rs 78-87, were line 81 to compare with >=
SweepExpired_AtTtl(room_ref, ttl, t) ==
    /\ room_ref.members = {}
    /\ room_ref.last_empty_at # None
    /\ t - room_ref.last_empty_at[1] >= ttl

\* room.rs 78-87: whether a sweep tick at time t ends the task
SweepExpired(room_ref, ttl, t) ==
    /\ room_ref.members = {}
    /\ room_ref.last_empty_at # None
    /\ t - room_ref.last_empty_at[1] > ttl

InitRoom ==
    /\ draft = "room"
    /\ history_limit \in 0..MaxHistoryLimit
    /\ room_ttl_secs = TtlSecs
    /\ now = 0
    /\ ncmds = 0
    /\ rooms = << >>
    /\ task = [r \in Rooms |-> "none"]
    /\ rx = [c \in Conns |-> NoRx]
    /\ observed = [c \in Conns |-> << >>]
    /\ resp = NoResp
    /\ sent = [r \in Rooms |-> << >>]
    /\ empty_since = [r \in Rooms |-> None]
    /\ ListenerIdle
    /\ CodecIdle
    /\ PoolIdle

\* spawn_room_task(cfg, room); room tasks share no state, so one behaviour
\* follows a single task
Spawn(room) ==
    /\ draft = "room"
    /\ \A r \in Rooms : task[r] = "none"
    /\ NextRoomName(room)
    /\ task' = [task EXCEPT ![room] = "running"]
    /\ rooms' = (room :> RoomTask_new) @@ rooms
    /\ empty_since' = [empty_since EXCEPT ![room] = Some(now)]
    /\ resp = NoResp
    /\ resp' = NoResp
    /\ UNCHANGED lvars
    /\ UNCHANGED xvars
    /\ UNCHANGED <<draft, history_limit, room_ttl_secs, now, ncmds, rx, observed, sent>>

\* RoomCmd::Join { name, resp }, resp held by connection c
RoomJoin(room, name, c) ==
    /\ draft = "room"
    /\ task[room] = "running"
    /\ ncmds < MaxCmds
    /\ NextConn(c)
    /\ LET j == RoomJoinCmd(rooms[room], Cardinality(Receivers(room)), history_limit,
                            room, name)
       IN  /\ rooms' = [rooms EXCEPT ![room] = j.room_ref]
           /\ rx' = [rx EXCEPT ![c] = j.receiver]
    /\ empty_since' = [empty_since EXCEPT ![room] = None]
    /\ ncmds' = ncmds + 1
    /\ resp = NoResp
    /\ resp' = NoResp
    /\ UNCHANGED lvars
    /\ UNCHANGED xvars
    /\ UNCHANGED <<draft, history_limit, room_ttl_secs, now, task, observed, sent>>

\* RoomCmd::Send(ev)
RoomSend(room, event) ==
    /\ draft = "room"
    /\ task[room] = "running"
    /\ ncmds < MaxCmds
    /\ rooms' = [rooms EXCEPT ![room] =
          broadcast_event(@, Cardinality(Receivers(room)), history_limit, event)]
    /\ sent' = IF event.type = "NewMessage"
               THEN [sent EXCEPT ![room] = Append(@, event)]
               ELSE sent
    /\ ncmds' = ncmds + 1
    /\ resp = NoResp
    /\ resp' = NoResp
    /\ UNCHANGED lvars
    /\ UNCHANGED xvars
    /\ UNCHANGED <<draft, history_limit, room_ttl_secs, now, task, rx, observed,
                   empty_since>>

\* RoomCmd::Leave { name }
RoomLeave(room, name) ==
    /\ draft = "room"
    /\ task[room] = "running"
    /\ ncmds < MaxCmds
    /\ rooms' = [rooms EXCEPT ![room] =
          RoomLeaveCmd(@, Cardinality(Receivers(room)), history_limit, room, name, now)]
    /\ empty_since' = [empty_since EXCEPT ![room] =
          EmptySince(room, rooms[room].members, rooms'[room].members)]
    /\ ncmds' = ncmds + 1
    /\ resp = NoResp
    /\ resp' = NoResp
    /\ UNCHANGED lvars
    /\ UNCHANGED xvars
    /\ UNCHANGED <<draft, history_limit, room_ttl_secs, now, task, rx, observed, sent>>

\* RoomCmd::GetMembers { resp }
RoomGetMembers(room) ==
    /\ draft = "room"
    /\ resp = NoResp
    /\ task[room] = "running"
    /\ \E list \in Orders(rooms[room].members) :
          resp' = [kind |-> "Members", room |-> room, value |-> list]
    /\ UNCHANGED lvars
    /\ UNCHANGED xvars
    /\ UNCHANGED <<draft, history_limit, room_ttl_secs, now, ncmds, rooms, task, rx,
                   observed, sent, empty_since>>

\* RoomCmd::GetHistory { resp }
RoomGetHistory(room) ==
    /\ draft = "room"
    /\ resp = NoResp
    /\ task[room] = "running"
    /\ resp' = [kind |-> "History", room |-> room, value |-> rooms[room].history]
    /\ UNCHANGED lvars
    /\ UNCHANGED xvars
    /\ UNCHANGED <<draft, history_limit, room_ttl_secs, now, ncmds, rooms, task, rx,
                   observed, sent, empty_since>>

\* RoomCmd::Shutdown
RoomShutdown(room) ==
    /\ draft = "room"
    /\ task[room] = "running"
    /\ task' = [task EXCEPT ![room] = "shutdown"]
    /\ resp = NoResp
    /\ resp' = NoResp
    /\ UNCHANGED lvars
    /\ UNCHANGED xvars
    /\ UNCHANGED <<draft, history_limit, room_ttl_secs, now, ncmds, rooms, rx, observed,
                   sent, empty_since>>

\* every sender of the task's command channel is dropped: cmd_rx.recv() yields
\* None from now on, which the pattern Some(cmd) of room.rs 47 does not match,
\* so each select! of the loop is left with its sweep branch alone
CmdTxDropped(room) ==
    /\ draft = "room"
    /\ task[room] = "running"
    /\ task' = [task EXCEPT ![room] = "cmd_closed"]
    /\ resp = NoResp
    /\ resp' = NoResp
    /\ UNCHANGED lvars
    /\ UNCHANGED xvars
    /\ UNCHANGED <<draft, history_limit, room_ttl_secs, now, ncmds, rooms, rx, observed,
                   sent, empty_since>>

\* sweep.tick()
Sweep(room) ==
    /\ draft = "room"
    /\ task[room] \in {"running", "cmd_closed"}
    /\ task' = IF SweepExpired(rooms[room], room_ttl_secs, now)
               THEN [task EXCEPT ![room] = "expired"]
               ELSE task
    /\ resp = NoResp
    /\ resp' = NoResp
    /\ UNCHANGED lvars
    /\ UNCHANGED xvars
    /\ UNCHANGED <<draft, history_limit, room_ttl_secs, now, ncmds, rooms, rx, observed,
                   sent, empty_since>>

\* the holder of a receiver takes the next frame from it (bcast_rx.recv())
Recv(c) ==
    /\ draft = "room"
    /\ rx[c] # NoRx
    /\ LET tx == rooms[rx[c].room].tx
       IN  /\ rx[c].next <= Len(tx)
           /\ rx[c].next >= Oldest(tx)
           /\ observed' = [observed EXCEPT ![c] = Append(@, RecvNext(tx, rx[c]))]
           /\ rx' = [rx EXCEPT ![c].next = @ + 1]
    /\ resp = NoResp
    /\ resp' = NoResp
    /\ UNCHANGED lvars
    /\ UNCHANGED xvars
    /\ UNCHANGED <<draft, history_limit, room_ttl_secs, now, ncmds, rooms, task, sent,
                   empty_since>>

\* bcast_rx.recv() = Err(Lagged): the receiver skips to the oldest retained frame
RecvLagged(c) ==
    /\ draft = "room"
    /\ rx[c] # NoRx
    /\ LET tx == rooms[rx[c].room].tx
       IN  /\ rx[c].next < Oldest(tx)
           /\ rx' = [rx EXCEPT ![c] = [@ EXCEPT !.next = Oldest(tx), !.lagged = TRUE]]
    /\ resp = NoResp
    /\ resp' = NoResp
    /\ UNCHANGED lvars
    /\ UNCHANGED xvars
    /\ UNCHANGED <<draft, history_limit, room_ttl_secs, now, ncmds, rooms, task,
                   observed, sent, empty_since>>

\* the holder drops its receiver
RecvDrop(c) ==
    /\ draft = "room"
    /\ rx[c] # NoRx
    /\ rx' = [rx EXCEPT ![c] = NoRx]
    /\ observed' = [observed EXCEPT ![c] = << >>]
    /\ resp = NoResp
    /\ resp' = NoResp
    /\ UNCHANGED lvars
    /\ UNCHANGED xvars
    /\ UNCHANGED <<draft, history_limit, room_ttl_secs, now, ncmds, rooms, task, sent,
                   empty_since>>

NextRoom ==
    \/ \E room \in Rooms : Spawn(room)
    \/ \E room \in Rooms, name \in Names, c \in Conns : RoomJoin(room, name, c)
    \/ \E room \in Rooms : \E event \in SendEvents(room) : RoomSend(room, event)
    \/ \E room \in Rooms, name \in Names : RoomLeave(room, name)
    \/ \E room \in Rooms : RoomGetMembers(room)
    \/ \E room \in Rooms : RoomGetHistory(room)
    \/ \E room \in Rooms : RoomShutdown(room)
    \/ \E room \in Rooms : Sweep(room)
    \/ \E c \in Conns : Recv(c)
    \/ \E c \in Conns : RecvLagged(c)
    \/ \E c \in Conns : RecvDrop(c)

\* the requester takes the reply from its resp channel (resp_rx.recv());
\* a reply is taken before the next step, which it cannot influence
ReplyTaken ==
    /\ resp # NoResp
    /\ resp' = NoResp
    /\ UNCHANGED lvars
    /\ UNCHANGED xvars
    /\ UNCHANGED <<draft, history_limit, room_ttl_secs, now, ncmds, rooms, task, rx,
                   observed, sent, empty_since>>

Init == InitHub \/ InitRoom
Next == NextHub \/ NextRoom \/ Tick \/ ReplyTaken
Spec == Init /\ [][Next]_vars

\* a room task whose owner may drop the task's command sender
NextRoomOwned ==
    \/ NextRoom
    \/ \E room \in Rooms : CmdTxDropped(room)
    \/ Tick
    \/ ReplyTaken

SpecRoom == InitRoom /\ [][NextRoomOwned]_vars

(* ---------------------- wire codec (protocol.rs) ----------------------- *)

\* longest rooms / members vector that is encoded
MaxListLen == 2

\* the strings put into the fields: a plain one, one that reads like a key and
\* one that reads like a number
FieldStrings == {"x", "room", "0"}

\* the u64 values put into ts: one digit, several digits, trailing zeros
U64Samples == {0, 9, 10, 1234567890}

RECURSIVE SeqsUpTo(_, _)
SeqsUpTo(S, n) ==
    IF n = 0 THEN {<< >>}
    ELSE SeqsUpTo(S, n - 1)
            \cup {Append(q, x) : q \in {p \in SeqsUpTo(S, n - 1) : Len(p) = n - 1}, x \in S}

\* protocol.rs 7-18
ClientRequests ==
    {Join(r, n) : r \in FieldStrings, n \in FieldStrings}
        \cup {Leave(r) : r \in FieldStrings}
        \cup {Message(r, t) : r \in FieldStrings, t \in FieldStrings}
        \cup {RoomListReq}
        \cup {Members(r) : r \in FieldStrings}

\* protocol.rs 22-33
ServerEvents ==
    {UserJoined(r, n) : r \in FieldStrings, n \in FieldStrings}
        \cup {UserLeft(r, n) : r \in FieldStrings, n \in FieldStrings}
        \cup {NewMessage(r, n, t, ts) : r \in FieldStrings, n \in FieldStrings,
                                        t \in FieldStrings, ts \in U64Samples}
        \cup {RoomList(l) : l \in SeqsUpTo(FieldStrings, MaxListLen)}
        \cup {MemberList(r, l) : r \in FieldStrings, l \in SeqsUpTo(FieldStrings, MaxListLen)}

\* a value of either enum is about to be serialized
InitCodec ==
    /\ draft = "hub"
    /\ history_limit = MaxHistoryLimit
    /\ room_ttl_secs = TtlSecs
    /\ now = 0
    /\ ncmds = 0
    /\ rooms = << >>
    /\ task = [r \in Rooms |-> "none"]
    /\ rx = [c \in Conns |-> NoRx]
    /\ observed = [c \in Conns |-> << >>]
    /\ resp = NoResp
    /\ sent = [r \in Rooms |-> << >>]
    /\ empty_since = [r \in Rooms |-> None]
    /\ ListenerIdle
    /\ PoolIdle
    /\ \/ \E v \in ClientRequests :
             codec = [NoCodec EXCEPT !.pc = "value", !.side = "request", !.value = v]
       \/ \E v \in ServerEvents :
             codec = [NoCodec EXCEPT !.pc = "value", !.side = "event", !.value = v]

\* serde_json::to_string(&v)
Serialize ==
    /\ codec.pc = "value"
    /\ codec' = [codec EXCEPT !.pc = "wire",
                              !.wire = IF codec.side = "request"
                                       THEN EncodeRequest(codec.value)
                                       ELSE Encode(codec.value)]
    /\ UNCHANGED lvars
    /\ UNCHANGED pvars
    /\ UNCHANGED <<draft, history_limit, room_ttl_secs, now, ncmds, rooms, task, rx,
                   observed, resp, sent, empty_since>>

\* serde_json::from_str(&json)
Deserialize ==
    /\ codec.pc = "wire"
    /\ codec' = [codec EXCEPT !.pc = "back",
                              !.back = IF codec.side = "request"
                                       THEN DecodeRequest(codec.wire)
                                       ELSE Decode(codec.wire)]
    /\ UNCHANGED lvars
    /\ UNCHANGED pvars
    /\ UNCHANGED <<draft, history_limit, room_ttl_secs, now, ncmds, rooms, task, rx,
                   observed, resp, sent, empty_since>>

NextCodec == Serialize \/ Deserialize

SpecCodec == InitCodec /\ [][NextCodec]_vars

(* -------------------- buffer pool (memory_pool.rs) --------------------- *)

\* the slab crate: insert takes the key at the head of the vacant list (the
\* key vacated last), or a new one at the end
SlabInsert(sl, val) ==
    LET key == sl.next
    IN  IF key = Len(sl.entries)
        THEN [slab |-> [entries |-> Append(sl.entries, Occupied(val)), next |-> key + 1],
              key |-> key]
        ELSE [slab |-> [entries |-> [sl.entries EXCEPT ![key + 1] = Occupied(val)],
                        next |-> sl.entries[key + 1].next],
              key |-> key]

\* Slab::remove(key): the entry becomes the head of the vacant list
SlabRemove(sl, key) ==
    [entries |-> [sl.entries EXCEPT ![key + 1] = Vacant(sl.next)], next |-> key]

\* Slab::contains(key)
SlabContains(sl, key) == key < Len(sl.entries) /\ sl.entries[key + 1].occ

\* the keys of the occupied entries
SlabKeys(sl) == {k \in 0..(Len(sl.entries) - 1) : sl.entries[k + 1].occ}

\* memory_pool.rs 86-88, were any retired buffer taken
AllocFind_Any(sl, size) == SlabKeys(sl)

\* memory_pool.rs 86-88: the entries find() accepts
AllocFind(sl, size) == {k \in SlabKeys(sl) : sl.entries[k + 1].buf.cap >= size}

\* the allocation BytesMut::with_capacity(size) makes: none for size 0
NewAllocation(hp, size) ==
    IF size = 0 THEN 0 ELSE CHOOSE a \in Allocations :
        /\ hp[a].state = "unused"
        /\ \A b \in Allocations : hp[b].state = "unused" => a <= b

\* memory_pool.rs 83-97: alloc(size); iter() visits the keys in ascending order
alloc(sl, hp, size) ==
    LET fit == AllocFind(sl, size)
    IN  IF fit # {}
        THEN LET key == CHOOSE k \in fit : \A j \in fit : k <= j
             IN  [slabs |-> SlabRemove(sl, key), heap |-> hp,
                  pooled |-> [state |-> "held", key |-> key, buf |-> sl.entries[key + 1].buf]]
        ELSE LET a == NewAllocation(hp, size)
                 ins == SlabInsert(sl, [id |-> a, cap |-> size, len |-> 0])
             IN  [slabs |-> SlabRemove(ins.slab, ins.key),
                  heap |-> IF a = 0 THEN hp
                           ELSE [hp EXCEPT ![a] = [state |-> "live", bytes |-> << >>]],
                  pooled |-> [state |-> "held", key |-> ins.key,
                              buf |-> [id |-> a, cap |-> size, len |-> 0]]]

\* an allocation is released to the system allocator
Release(hp, a) == IF a = 0 THEN hp ELSE [hp EXCEPT ![a] = [state |-> "freed", bytes |-> << >>]]

\* memory_pool.rs 100-104, 113-119: recycle_raw(key, buf); a buffer that finds
\* its key occupied is dropped
recycle_raw(sl, hp, key, buf) ==
    IF SlabContains(sl, key)
    THEN [slabs |-> sl, heap |-> Release(hp, buf.id)]
    ELSE [slabs |-> SlabInsert(sl, [buf EXCEPT !.len = 0]).slab, heap |-> hp]

\* memory_pool.rs 31-40, were the frozen buffer's own allocation handed back
FreezeRecycled_Storage(buf) == buf

\* memory_pool.rs 38: what freeze() hands back to the pool
FreezeRecycled(buf) == BytesMut_new

\* the bytes a BytesMut or Bytes of length len reads from allocation a
Read(hp, a, len) == IF a = 0 THEN << >> ELSE SubSeq(hp[a].bytes, 1, len)

\* BytesMut::extend_from_slice(data): the bytes are stored after the first
\* len ones; the rest of the memory keeps what it held
Extend(hp, buf, data) ==
    IF data = << >> THEN hp
    ELSE [hp EXCEPT ![buf.id].bytes =
            [i \in 1..(IF Len(@) > buf.len + Len(data) THEN Len(@) ELSE buf.len + Len(data)) |->
                IF i > buf.len /\ i <= buf.len + Len(data) THEN data[i - buf.len] ELSE @[i]]]

\* whether alloc can make the buffer it would need
CanAlloc(size) ==
    \/ AllocFind(slabs, size) # {}
    \/ size = 0
    \/ \E a \in Allocations : heap[a].state = "unused"

\* MemoryPool::global().alloc(size) by a holder
Alloc(h, size) ==
    /\ bufs[h].state = "none"
    /\ frozen[h].refs = 0
    /\ CanAlloc(size)
    /\ LET r == alloc(slabs, heap, size)
       IN  /\ slabs' = r.slabs
           /\ heap' = r.heap
           /\ bufs' = [bufs EXCEPT ![h] = r.pooled]
    /\ frozen' = [frozen EXCEPT ![h] = NoFrame]
    /\ UNCHANGED <<codec>>
    /\ UNCHANGED lvars
    /\ UNCHANGED <<draft, history_limit, room_ttl_secs, now, ncmds, rooms, task, rx,
                   observed, resp, sent, empty_since>>

\* buf.extend_from_slice(..) within the capacity asked for
Write(h, data) ==
    /\ bufs[h].state = "held"
    /\ bufs[h].buf.len + Len(data) <= bufs[h].buf.cap
    /\ heap' = Extend(heap, bufs[h].buf, data)
    /\ bufs' = [bufs EXCEPT ![h].buf.len = @ + Len(data)]
    /\ UNCHANGED <<codec, slabs, frozen>>
    /\ UNCHANGED lvars
    /\ UNCHANGED <<draft, history_limit, room_ttl_secs, now, ncmds, rooms, task, rx,
                   observed, resp, sent, empty_since>>

\* memory_pool.rs 43-46, 61-67: the PooledBytes is dropped or recycled
\* without having been frozen
DropBuf(h) ==
    /\ bufs[h].state = "held"
    /\ LET r == recycle_raw(slabs, heap, bufs[h].key, bufs[h].buf)
       IN  /\ slabs' = r.slabs
           /\ heap' = r.heap
    /\ bufs' = [bufs EXCEPT ![h] = NoPooled]
    /\ UNCHANGED <<codec, frozen>>
    /\ UNCHANGED lvars
    /\ UNCHANGED <<draft, history_limit, room_ttl_secs, now, ncmds, rooms, task, rx,
                   observed, resp, sent, empty_since>>

\* memory_pool.rs 31-40: freeze(); the Bytes takes the buffer's allocation
freeze(sl, hp, pooled) ==
    LET r == recycle_raw(sl, hp, pooled.key, FreezeRecycled(pooled.buf))
    IN  [slabs |-> r.slabs, heap |-> r.heap,
         bytes |-> [id |-> pooled.buf.id, len |-> pooled.buf.len, refs |-> 1,
                    json |-> Read(hp, pooled.buf.id, pooled.buf.len)]]

\* buf.freeze() by a holder
Freeze(h) ==
    /\ bufs[h].state = "held"
    /\ LET r == freeze(slabs, heap, bufs[h])
       IN  /\ slabs' = r.slabs
           /\ heap' = r.heap
           /\ frozen' = [frozen EXCEPT ![h] = r.bytes]
    /\ bufs' = [bufs EXCEPT ![h] = [NoPooled EXCEPT !.state = "frozen"]]
    /\ UNCHANGED <<codec>>
    /\ UNCHANGED lvars
    /\ UNCHANGED <<draft, history_limit, room_ttl_secs, now, ncmds, rooms, task, rx,
                   observed, resp, sent, empty_since>>

\* frame.clone(): one more reference to the same bytes
CloneFrame(h) ==
    /\ frozen[h].refs = 1
    /\ frozen' = [frozen EXCEPT ![h].refs = @ + 1]
    /\ UNCHANGED <<codec, slabs, heap, bufs>>
    /\ UNCHANGED lvars
    /\ UNCHANGED <<draft, history_limit, room_ttl_secs, now, ncmds, rooms, task, rx,
                   observed, resp, sent, empty_since>>

\* a reference to the frame is dropped; the last one releases the allocation
\* (Bytes knows nothing of the pool)
DropFrame(h) ==
    /\ frozen[h].refs >= 1
    /\ frozen' = [frozen EXCEPT ![h].refs = @ - 1]
    /\ heap' = IF frozen[h].refs = 1 THEN Release(heap, frozen[h].id) ELSE heap
    /\ bufs' = [bufs EXCEPT ![h] = IF frozen[h].refs = 1 THEN NoPooled ELSE @]
    /\ UNCHANGED <<codec, slabs>>
    /\ UNCHANGED lvars
    /\ UNCHANGED <<draft, history_limit, room_ttl_secs, now, ncmds, rooms, task, rx,
                   observed, resp, sent, empty_since>>

\* the events broadcast_event is called with
PoolEvents == {UserJoined("a", "alice"), NewMessage("a", "alice", "x", 0)}

\* room.rs 96-118: broadcast_event: the event is serialized once into a pooled
\* buffer, which is frozen; a clone of the frame goes to the channel and, for
\* a chat message, the frame itself to the history (the holder stands for
\* both references)
BroadcastEvent(h, event) ==
    /\ bufs[h].state = "none"
    /\ frozen[h].refs = 0
    /\ CanAlloc(Len(Encode(event)))
    /\ LET json == Encode(event)
           a == alloc(slabs, heap, Len(json))
           written == Extend(a.heap, a.pooled.buf, json)
           f == freeze(a.slabs, written,
                       [a.pooled EXCEPT !.buf.len = a.pooled.buf.len + Len(json)])
       IN  /\ slabs' = f.slabs
           /\ heap' = f.heap
           /\ frozen' = [frozen EXCEPT ![h] =
                 [f.bytes EXCEPT !.refs = IF is_chat_message(event) THEN 2 ELSE 1,
                                 !.json = json]]
    /\ bufs' = [bufs EXCEPT ![h] = [NoPooled EXCEPT !.state = "frozen"]]
    /\ UNCHANGED <<codec>>
    /\ UNCHANGED lvars
    /\ UNCHANGED <<draft, history_limit, room_ttl_secs, now, ncmds, rooms, task, rx,
                   observed, resp, sent, empty_since>>

NextPool ==
    \/ \E h \in Holders, size \in 0..MaxSize : Alloc(h, size)
    \/ \E h \in Holders : Write(h, <<"b">>)
    \/ \E h \in Holders : DropBuf(h)
    \/ \E h \in Holders : Freeze(h)
    \/ \E h \in Holders : CloneFrame(h)
    \/ \E h \in Holders : DropFrame(h)
    \/ \E h \in Holders : \E event \in PoolEvents : BroadcastEvent(h, event)

\* a server that has not yet touched the pool
InitPool ==
    /\ draft = "room"
    /\ history_limit = MaxHistoryLimit
    /\ room_ttl_secs = TtlSecs
    /\ now = 0
    /\ ncmds = 0
    /\ rooms = << >>
    /\ task = [r \in Rooms |-> "none"]
    /\ rx = [c \in Conns |-> NoRx]
    /\ observed = [c \in Conns |-> << >>]
    /\ resp = NoResp
    /\ sent = [r \in Rooms |-> << >>]
    /\ empty_since = [r \in Rooms |-> None]
    /\ ListenerIdle
    /\ CodecIdle
    /\ PoolIdle

SpecPool == InitPool /\ [][NextPool]_vars

(* ------------- connection drivers (server/listener.rs) ---------------- *)

\* number of inbound frames (and ends of stream) the connections read in one
\* behaviour
MaxReqs == 3
\* bin/server.rs 16: capacity of the hub's command channel
HubChannel == 128
\* listener.rs 72: capacity of a connection's unicast mailbox
MailboxCapacity == 32

Requests ==
    {Join(r, n) : r \in Rooms, n \in Names}
        \cup {Leave(r) : r \in Rooms}
        \cup {Message(r, t) : r \in Rooms, t \in Texts}
        \cup {RoomListReq}
        \cup {Members(r) : r \in Rooms}

\* the text frames a client sends: every request, and text that is no request
InboundFrames == {EncodeRequest(q) : q \in Requests} \cup {<<"Nonsense">>}

\* connections are interchangeable: they start reading in the order of their ids
CanRead(c) == \A d \in Conns : d < c => conn[d].started

\* room names and user names are interchangeable: the first Join of a
\* behaviour names a fixed room and a fixed user
FirstJoin(req) ==
    (req.type = "Join" /\ \A d \in Conns : conn[d].room = "") =>
        /\ req.room = CHOOSE r \in Rooms : TRUE
        /\ req.name = CHOOSE n \in Names : TRUE

\* listener.rs 33-55, were Members served before Join as the main loop
\* serves it (146-153)
PreJoin_ServeMembers(req, c, self) ==
    CASE req.type = "Join" ->
            [self |-> [self EXCEPT !.pc = "join_wait", !.room = req.room,
                                   !.name = req.name],
             send |-> <<HubCommand("JoinRoom", req.room, req.name, NoEvent, c)>>]
      [] req.type = "RoomList" ->
            [self |-> [self EXCEPT !.pc = "list_wait"],
             send |-> <<HubCommand("GetRoomList", "", "", NoEvent, c)>>]
      [] req.type = "Members" ->
            [self |-> self,
             send |-> <<HubCommand("GetMembers", req.room, "", NoEvent, c)>>]
      [] req.type = "Err" ->
            [self |-> [self EXCEPT !.pc = "failed"], send |-> << >>]
      [] OTHER -> [self |-> self, send |-> << >>]

\* listener.rs 33-55: what the wait-for-Join loop does with a decoded request;
\* self is the driver's state, send the commands it sends to the hub
PreJoin(req, c, self) ==
    CASE req.type = "Join" ->
            [self |-> [self EXCEPT !.pc = "join_wait", !.room = req.room,
                                   !.name = req.name],
             send |-> <<HubCommand("JoinRoom", req.room, req.name, NoEvent, c)>>]
      [] req.type = "RoomList" ->
            [self |-> [self EXCEPT !.pc = "list_wait"],
             send |-> <<HubCommand("GetRoomList", "", "", NoEvent, c)>>]
      [] req.type = "Err" ->
            [self |-> [self EXCEPT !.pc = "failed"], send |-> << >>]
      [] OTHER -> [self |-> self, send |-> << >>]

\* listener.rs 119-164, were RoomList served in the main loop as it is before
\* Join (41-45)
Joined_ServeRoomList(req, c, self, ts) ==
    CASE req.type = "Message" ->
            [self |-> self,
             send |-> <<HubCommand("SendMsg", req.room, "",
                                   NewMessage(req.room, self.name, req.text, ts), c)>>]
      [] req.type = "Leave" ->
            [self |-> [self EXCEPT !.pc = "await_push", !.arg = req.room,
                                   !.close_rx = "sent"],
             send |-> <<HubCommand("LeaveRoom", req.room, self.name, NoEvent, c)>>]
      [] req.type = "Members" ->
            [self |-> [self EXCEPT !.pc = "members_wait", !.arg = req.room],
             send |-> <<HubCommand("GetMembers", req.room, "", NoEvent, c)>>]
      [] req.type = "RoomList" ->
            [self |-> self,
             send |-> <<HubCommand("GetRoomList", "", "", NoEvent, c)>>]
      [] req.type = "Err" ->
            [self |-> [self EXCEPT !.pc = "failed", !.close_rx = "dropped"],
             send |-> << >>]
      [] OTHER -> [self |-> self, send |-> << >>]

\* listener.rs 119-164, were RoomList answered in the main loop by the code of
\* 41-52, the driver itself writing the frame
Joined_InlineRoomList(req, c, self, ts) ==
    CASE req.type = "Message" ->
            [self |-> self,
             send |-> <<HubCommand("SendMsg", req.room, "",
                                   NewMessage(req.room, self.name, req.text, ts), c)>>]
      [] req.type = "Leave" ->
            [self |-> [self EXCEPT !.pc = "await_push", !.arg = req.room,
                                   !.close_rx = "sent"],
             send |-> <<HubCommand("LeaveRoom", req.room, self.name, NoEvent, c)>>]
      [] req.type = "Members" ->
            [self |-> [self EXCEPT !.pc = "members_wait", !.arg = req.room],
             send |-> <<HubCommand("GetMembers", req.room, "", NoEvent, c)>>]
      [] req.type = "RoomList" ->
            [self |-> [self EXCEPT !.pc = "list_wait"],
             send |-> <<HubCommand("GetRoomList", "", "", NoEvent, c)>>]
      [] req.type = "Err" ->
            [self |-> [self EXCEPT !.pc = "failed", !.close_rx = "dropped"],
             send |-> << >>]
      [] OTHER -> [self |-> self, send |-> << >>]

\* listener.rs 119-164, were the driver to take its user out of the room when
\* a frame does not decode
Joined_LeaveOnErr(req, c, self, ts) ==
    CASE req.type = "Message" ->
            [self |-> self,
             send |-> <<HubCommand("SendMsg", req.room, "",
                                   NewMessage(req.room, self.name, req.text, ts), c)>>]
      [] req.type = "Leave" ->
            [self |-> [self EXCEPT !.pc = "await_push", !.arg = req.room,
                                   !.close_rx = "sent"],
             send |-> <<HubCommand("LeaveRoom", req.room, self.name, NoEvent, c)>>]
      [] req.type = "Members" ->
            [self |-> [self EXCEPT !.pc = "members_wait", !.arg = req.room],
             send |-> <<HubCommand("GetMembers", req.room, "", NoEvent, c)>>]
      [] req.type = "Err" ->
            [self |-> [self EXCEPT !.pc = "failed", !.close_rx = "dropped"],
             send |-> <<HubCommand("LeaveRoom", self.room, self.name, NoEvent, c)>>]
      [] OTHER -> [self |-> self, send |-> << >>]

\* listener.rs 119-164, were a Join read in the main loop to replace the name
\* captured at line 33
Joined_Rename(req, c, self, ts) ==
    CASE req.type = "Message" ->
            [self |-> self,
             send |-> <<HubCommand("SendMsg", req.room, "",
                                   NewMessage(req.room, self.name, req.text, ts), c)>>]
      [] req.type = "Leave" ->
            [self |-> [self EXCEPT !.pc = "await_push", !.arg = req.room,
                                   !.close_rx = "sent"],
             send |-> <<HubCommand("LeaveRoom", req.room, self.name, NoEvent, c)>>]
      [] req.type = "Members" ->
            [self |-> [self EXCEPT !.pc = "members_wait", !.arg = req.room],
             send |-> <<HubCommand("GetMembers", req.room, "", NoEvent, c)>>]
      [] req.type = "Join" ->
            [self |-> [self EXCEPT !.name = req.name], send |-> << >>]
      [] req.type = "Err" ->
            [self |-> [self EXCEPT !.pc = "failed", !.close_rx = "dropped"],
             send |-> << >>]
      [] OTHER -> [self |-> self, send |-> << >>]

\* listener.rs 119-164: what the main loop does with a decoded request; ts is
\* the clock reading stamped on a message
Joined(req, c, self, ts) ==
    CASE req.type = "Message" ->
            [self |-> self,
             send |-> <<HubCommand("SendMsg", req.room, "",
                                   NewMessage(req.room, self.name, req.text, ts), c)>>]
      [] req.type = "Leave" ->
            [self |-> [self EXCEPT !.pc = "await_push", !.arg = req.room,
                                   !.close_rx = "sent"],
             send |-> <<HubCommand("LeaveRoom", req.room, self.name, NoEvent, c)>>]
      [] req.type = "Members" ->
            [self |-> [self EXCEPT !.pc = "members_wait", !.arg = req.room],
             send |-> <<HubCommand("GetMembers", req.room, "", NoEvent, c)>>]
      [] req.type = "Err" ->
            [self |-> [self EXCEPT !.pc = "failed", !.close_rx = "dropped"],
             send |-> << >>]
      [] OTHER -> [self |-> self, send |-> << >>]

\* listener.rs 34-55: the driver reads a text frame while waiting for Join
PreJoinRead(c, frame) ==
    /\ conn[c].pc = "prejoin"
    /\ nreqs < MaxReqs
    /\ CanRead(c)
    /\ FirstJoin(DecodeRequest(frame))
    /\ LET step == PreJoin(DecodeRequest(frame), c, conn[c])
       IN  /\ Len(hub_rx) + Len(step.send) <= HubChannel
           /\ hub_rx' = hub_rx \o step.send
           /\ conn' = [conn EXCEPT ![c] =
                 [step.self EXCEPT !.req = DecodeRequest(frame).type, !.started = TRUE]]
    /\ nreqs' = nreqs + 1
    /\ UNCHANGED <<ws_sender, answered>>
    /\ UNCHANGED xvars
    /\ UNCHANGED <<draft, history_limit, room_ttl_secs, now, ncmds, rooms, task, rx,
                   observed, resp, sent, empty_since>>

\* listener.rs 34-37: the stream ends (or fails) before a Join
PreJoinEof(c) ==
    /\ conn[c].pc = "prejoin"
    /\ nreqs < MaxReqs
    /\ CanRead(c)
    /\ conn' = [conn EXCEPT ![c] = [@ EXCEPT !.pc = "failed", !.eof = TRUE,
                                             !.started = TRUE]]
    /\ nreqs' = nreqs + 1
    /\ UNCHANGED <<hub_rx, ws_sender, answered>>
    /\ UNCHANGED xvars
    /\ UNCHANGED <<draft, history_limit, room_ttl_secs, now, ncmds, rooms, task, rx,
                   observed, resp, sent, empty_since>>

\* listener.rs 46-51: the room list arrives and is written to the transport
RoomListReply(c) ==
    /\ conn[c].pc = "list_wait"
    /\ conn[c].reply # None
    /\ ws_sender' = [ws_sender EXCEPT ![c] =
          Append(@, [by |-> "driver", via |-> "direct",
                     frame |-> Encode(RoomList(conn[c].reply[1]))])]
    /\ conn' = [conn EXCEPT ![c] = [@ EXCEPT !.pc = "prejoin", !.reply = None]]
    /\ UNCHANGED <<hub_rx, nreqs, answered>>
    /\ UNCHANGED xvars
    /\ UNCHANGED <<draft, history_limit, room_ttl_secs, now, ncmds, rooms, task, rx,
                   observed, resp, sent, empty_since>>

\* listener.rs 66-82: the broadcast receiver arrives (it is rx[c]); the driver
\* creates its mailbox and asks for the history
JoinReply(c) ==
    /\ conn[c].pc = "join_wait"
    /\ conn[c].reply # None
    /\ Len(hub_rx) < HubChannel
    /\ hub_rx' = Append(hub_rx, HubCommand("GetHistory", conn[c].room, "", NoEvent, c))
    /\ conn' = [conn EXCEPT ![c] = [@ EXCEPT !.pc = "hist_wait", !.reply = None]]
    /\ UNCHANGED <<ws_sender, nreqs, answered>>
    /\ UNCHANGED xvars
    /\ UNCHANGED <<draft, history_limit, room_ttl_secs, now, ncmds, rooms, task, rx,
                   observed, resp, sent, empty_since>>

\* listener.rs 83-116: the history arrives and is queued on the mailbox, as far
\* as the mailbox has room (nothing takes from it yet); once all of it is
\* queued the push task is spawned and the driver enters its main loop
HistoryReply(c) ==
    /\ conn[c].pc = "hist_wait"
    /\ conn[c].reply # None
    /\ LET history == conn[c].reply[1]
           frames == [i \in DOMAIN history |-> Encode(history[i])]
       IN  conn' = [conn EXCEPT ![c] =
              IF Len(frames) <= MailboxCapacity
              THEN [@ EXCEPT !.pc = "joined", !.reply = None, !.msg_rx = frames,
                             !.push_task = "running"]
              ELSE [@ EXCEPT !.pc = "replay", !.reply = None,
                             !.msg_rx = SubSeq(frames, 1, MailboxCapacity)]]
    /\ UNCHANGED <<hub_rx, ws_sender, nreqs, answered>>
    /\ UNCHANGED xvars
    /\ UNCHANGED <<draft, history_limit, room_ttl_secs, now, ncmds, rooms, task, rx,
                   observed, resp, sent, empty_since>>

\* listener.rs 119-164: the main loop reads a text frame
JoinedRead(c, frame) ==
    /\ conn[c].pc = "joined"
    /\ nreqs < MaxReqs
    /\ \E ts \in Stamps :
          LET step == Joined(DecodeRequest(frame), c, conn[c], ts)
          IN  /\ Len(hub_rx) + Len(step.send) <= HubChannel
              /\ hub_rx' = hub_rx \o step.send
              /\ conn' = [conn EXCEPT ![c] =
                    [step.self EXCEPT !.req = DecodeRequest(frame).type]]
    /\ nreqs' = nreqs + 1
    /\ UNCHANGED <<ws_sender, answered>>
    /\ UNCHANGED xvars
    /\ UNCHANGED <<draft, history_limit, room_ttl_secs, now, ncmds, rooms, task, rx,
                   observed, resp, sent, empty_since>>

\* listener.rs 119, 166: the stream ends (or fails); the loop is left and the
\* driver waits for its push task, close_tx still in hand
JoinedEof(c) ==
    /\ conn[c].pc = "joined"
    /\ nreqs < MaxReqs
    /\ conn' = [conn EXCEPT ![c] = [@ EXCEPT !.pc = "await_push", !.eof = TRUE]]
    /\ nreqs' = nreqs + 1
    /\ UNCHANGED <<hub_rx, ws_sender, answered>>
    /\ UNCHANGED xvars
    /\ UNCHANGED <<draft, history_limit, room_ttl_secs, now, ncmds, rooms, task, rx,
                   observed, resp, sent, empty_since>>

\* listener.rs 154-159, were the frame built with the room captured at Join
\* instead of the room the request named
MembersArrived_OwnRoom(self, members) ==
    IF self.push_task = "running"
    THEN [self EXCEPT !.pc = "joined", !.reply = None,
                      !.msg_rx = Append(@, Encode(MemberList(self.room, members)))]
    ELSE [self EXCEPT !.pc = "failed", !.reply = None,
                      !.close_rx = IF @ = "open" THEN "dropped" ELSE @]

\* listener.rs 154-159: what the driver does with the members that arrived;
\* sending on the mailbox fails once the push task has ended
MembersArrived(self, members) ==
    IF self.push_task = "running"
    THEN [self EXCEPT !.pc = "joined", !.reply = None,
                      !.msg_rx = Append(@, Encode(MemberList(self.arg, members)))]
    ELSE [self EXCEPT !.pc = "failed", !.reply = None,
                      !.close_rx = IF @ = "open" THEN "dropped" ELSE @]

\* listener.rs 154-159: the member list arrives and is queued on the mailbox
MembersReply(c) ==
    /\ conn[c].pc = "members_wait"
    /\ conn[c].reply # None
    /\ conn[c].push_task = "running" => Len(conn[c].msg_rx) < MailboxCapacity
    /\ conn' = [conn EXCEPT ![c] = MembersArrived(@, conn[c].reply[1])]
    /\ UNCHANGED <<hub_rx, ws_sender, nreqs, answered>>
    /\ UNCHANGED xvars
    /\ UNCHANGED <<draft, history_limit, room_ttl_secs, now, ncmds, rooms, task, rx,
                   observed, resp, sent, empty_since>>

\* listener.rs 166-167: the push task has ended and the driver returns
DriverExit(c) ==
    /\ conn[c].pc = "await_push"
    /\ conn[c].push_task = "ended"
    /\ conn' = [conn EXCEPT ![c] = [@ EXCEPT !.pc = "done",
                                             !.close_rx = IF @ = "open" THEN "dropped" ELSE @]]
    /\ UNCHANGED <<hub_rx, ws_sender, nreqs, answered>>
    /\ UNCHANGED xvars
    /\ UNCHANGED <<draft, history_limit, room_ttl_secs, now, ncmds, rooms, task, rx,
                   observed, resp, sent, empty_since>>

(* push task of a connection: select! takes whichever ready branch it polls
   first, so every ready source may be served next *)

\* listener.rs 98-102: a mailbox message is written to the transport
PushMailbox(c) ==
    /\ conn[c].push_task = "running"
    /\ conn[c].msg_rx # << >>
    /\ ws_sender' = [ws_sender EXCEPT ![c] =
          Append(@, [by |-> "push", via |-> "mailbox", frame |-> Head(conn[c].msg_rx)])]
    /\ conn' = [conn EXCEPT ![c].msg_rx = Tail(@)]
    /\ rx' = [rx EXCEPT ![c].stalled = FALSE]
    /\ UNCHANGED <<hub_rx, nreqs, answered>>
    /\ UNCHANGED xvars
    /\ UNCHANGED <<draft, history_limit, room_ttl_secs, now, ncmds, rooms, task,
                   observed, resp, sent, empty_since>>

\* listener.rs 103-108: a broadcast event is serialized and written
PushBroadcast(c) ==
    /\ conn[c].push_task = "running"
    /\ ~rx[c].stalled
    /\ LET tx == rooms[rx[c].room].tx
       IN  /\ rx[c].next <= Len(tx)
           /\ rx[c].next >= Oldest(tx)
           /\ ws_sender' = [ws_sender EXCEPT ![c] =
                 Append(@, [by |-> "push", via |-> "broadcast",
                            frame |-> Encode(RecvNext(tx, rx[c]))])]
           /\ rx' = [rx EXCEPT ![c].next = @ + 1]
    /\ UNCHANGED <<hub_rx, conn, nreqs, answered>>
    /\ UNCHANGED xvars
    /\ UNCHANGED <<draft, history_limit, room_ttl_secs, now, ncmds, rooms, task,
                   observed, resp, sent, empty_since>>

\* listener.rs 103: recv() = Err(Lagged) does not match Ok(ev); the receiver
\* has skipped ahead and this select! waits on for the mailbox alone
PushLag(c) ==
    /\ conn[c].push_task = "running"
    /\ ~rx[c].stalled
    /\ LET tx == rooms[rx[c].room].tx
       IN  /\ rx[c].next < Oldest(tx)
           /\ rx' = [rx EXCEPT ![c] = [@ EXCEPT !.next = Oldest(tx),
                                                !.lagged = TRUE,
                                                !.stalled = TRUE]]
    /\ UNCHANGED <<hub_rx, conn, ws_sender, nreqs, answered>>
    /\ UNCHANGED xvars
    /\ UNCHANGED <<draft, history_limit, room_ttl_secs, now, ncmds, rooms, task,
                   observed, resp, sent, empty_since>>

\* listener.rs 112-114: close_rx resolves (close_tx was used or dropped); the
\* close frame is written and the task ends, dropping receiver and mailbox
PushClose(c) ==
    /\ conn[c].push_task = "running"
    /\ conn[c].close_rx # "open"
    /\ ws_sender' = [ws_sender EXCEPT ![c] =
          Append(@, [by |-> "push", via |-> "close", frame |-> CloseFrame])]
    /\ conn' = [conn EXCEPT ![c].push_task = "ended"]
    /\ rx' = [rx EXCEPT ![c] = NoRx]
    /\ UNCHANGED <<hub_rx, nreqs, answered>>
    /\ UNCHANGED xvars
    /\ UNCHANGED <<draft, history_limit, room_ttl_secs, now, ncmds, rooms, task,
                   observed, resp, sent, empty_since>>

\* listener.rs 99-101, 105-107: a write to a transport whose peer is gone
\* fails; the loop breaks and the task ends
PushWriteErr(c) ==
    /\ conn[c].push_task = "running"
    /\ conn[c].eof
    /\ \/ conn[c].msg_rx # << >>
       \/ /\ ~rx[c].stalled
          /\ rx[c].next <= Len(rooms[rx[c].room].tx)
          /\ rx[c].next >= Oldest(rooms[rx[c].room].tx)
    /\ conn' = [conn EXCEPT ![c].push_task = "ended"]
    /\ rx' = [rx EXCEPT ![c] = NoRx]
    /\ UNCHANGED <<hub_rx, ws_sender, nreqs, answered>>
    /\ UNCHANGED xvars
    /\ UNCHANGED <<draft, history_limit, room_ttl_secs, now, ncmds, rooms, task,
                   observed, resp, sent, empty_since>>

(* ChatHub::run, taking its commands from the channel the drivers send on *)

\* the reply the hub sends on the resp channel connection c waits on
Reply(c, value) == [conn EXCEPT ![c].reply = Some(value)]

\* hub.rs 97-108
HubJoinRoom ==
    /\ hub_rx # << >>
    /\ Head(hub_rx).cmd = "JoinRoom"
    /\ LET cmd == Head(hub_rx)
           room_ref == IF cmd.room \in DOMAIN rooms THEN rooms[cmd.room] ELSE Room_new
           joined == JoinMembers(room_ref, cmd.name)
           sub == JoinSubscribe(joined.tx, Cardinality(Receivers(cmd.room)),
                                cmd.room, cmd.name)
       IN  /\ rooms' = (cmd.room :> [joined EXCEPT !.tx = sub.tx]) @@ rooms
           /\ rx' = [rx EXCEPT ![cmd.c] = sub.receiver]
           /\ empty_since' = [empty_since EXCEPT ![cmd.room] = None]
           /\ conn' = Reply(cmd.c, "broadcast_rx")
    /\ hub_rx' = Tail(hub_rx)
    /\ UNCHANGED <<ws_sender, nreqs, answered>>
    /\ UNCHANGED xvars
    /\ UNCHANGED <<draft, history_limit, room_ttl_secs, now, ncmds, task, observed,
                   resp, sent>>

\* hub.rs 110-120, were the room looked up with entry().or_insert_with() as
\* in JoinRoom
SendMsgRooms_Upsert(room, event) ==
    LET room_ref == IF room \in DOMAIN rooms THEN rooms[room] ELSE Room_new
    IN  (room :> [room_ref EXCEPT
                     !.tx = TxSend(@, Cardinality(Receivers(room)), event),
                     !.history = RecordHistory(@, event, history_limit)]) @@ rooms

\* hub.rs 110-120: the map after SendMsg { room, event }; a room that is not
\* in the map is not sent to
SendMsgRooms(room, event) ==
    IF room \in DOMAIN rooms
    THEN [rooms EXCEPT ![room] =
             [@ EXCEPT !.tx = TxSend(@, Cardinality(Receivers(room)), event),
                       !.history = RecordHistory(@, event, history_limit)]]
    ELSE rooms

\* hub.rs 109-121
HubSendMsg ==
    /\ hub_rx # << >>
    /\ Head(hub_rx).cmd = "SendMsg"
    /\ LET cmd == Head(hub_rx)
       IN  /\ rooms' = SendMsgRooms(cmd.room, cmd.event)
           /\ sent' = IF cmd.room \in DOMAIN rooms /\ cmd.event.type = "NewMessage"
                      THEN [sent EXCEPT ![cmd.room] = Append(@, cmd.event)]
                      ELSE sent
    /\ hub_rx' = Tail(hub_rx)
    /\ UNCHANGED <<conn, ws_sender, nreqs, answered>>
    /\ UNCHANGED xvars
    /\ UNCHANGED <<draft, history_limit, room_ttl_secs, now, ncmds, task, rx, observed,
                   resp, empty_since>>

\* hub.rs 122-133
HubLeaveRoom ==
    /\ hub_rx # << >>
    /\ Head(hub_rx).cmd = "LeaveRoom"
    /\ LET cmd == Head(hub_rx)
       IN  IF cmd.room \in DOMAIN rooms
           THEN /\ rooms' = [rooms EXCEPT ![cmd.room] =
                       LeaveMembers(@, Cardinality(Receivers(cmd.room)), cmd.room,
                                    cmd.name, now)]
                /\ empty_since' = [empty_since EXCEPT ![cmd.room] =
                       EmptySince(cmd.room, rooms[cmd.room].members,
                                  rooms'[cmd.room].members)]
           ELSE UNCHANGED <<rooms, empty_since>>
    /\ hub_rx' = Tail(hub_rx)
    /\ UNCHANGED <<conn, ws_sender, nreqs, answered>>
    /\ UNCHANGED xvars
    /\ UNCHANGED <<draft, history_limit, room_ttl_secs, now, ncmds, task, rx, observed,
                   resp, sent>>

\* hub.rs 134-137
HubGetRoomList ==
    /\ hub_rx # << >>
    /\ Head(hub_rx).cmd = "GetRoomList"
    /\ \E list \in Orders(DOMAIN rooms) : conn' = Reply(Head(hub_rx).c, list)
    /\ hub_rx' = Tail(hub_rx)
    /\ UNCHANGED <<ws_sender, nreqs, answered>>
    /\ UNCHANGED xvars
    /\ UNCHANGED <<draft, history_limit, room_ttl_secs, now, ncmds, rooms, task, rx,
                   observed, resp, sent, empty_since>>

\* hub.rs 138-145
HubGetMembers ==
    /\ hub_rx # << >>
    /\ Head(hub_rx).cmd = "GetMembers"
    /\ LET cmd == Head(hub_rx)
           members == IF cmd.room \in DOMAIN rooms THEN rooms[cmd.room].members ELSE {}
       IN  /\ \E list \in Orders(members) : conn' = Reply(cmd.c, list)
           /\ answered' = [answered EXCEPT ![cmd.c] =
                 Append(@, [room |-> cmd.room, members |-> members])]
    /\ hub_rx' = Tail(hub_rx)
    /\ UNCHANGED <<ws_sender, nreqs>>
    /\ UNCHANGED xvars
    /\ UNCHANGED <<draft, history_limit, room_ttl_secs, now, ncmds, rooms, task, rx,
                   observed, resp, sent, empty_since>>

\* hub.rs 146-153
HubGetHistory ==
    /\ hub_rx # << >>
    /\ Head(hub_rx).cmd = "GetHistory"
    /\ LET cmd == Head(hub_rx)
       IN  conn' = Reply(cmd.c, IF cmd.room \in DOMAIN rooms
                                THEN rooms[cmd.room].history ELSE << >>)
    /\ hub_rx' = Tail(hub_rx)
    /\ UNCHANGED <<ws_sender, nreqs, answered>>
    /\ UNCHANGED xvars
    /\ UNCHANGED <<draft, history_limit, room_ttl_secs, now, ncmds, rooms, task, rx,
                   observed, resp, sent, empty_since>>

NextListener ==
    \/ \E c \in Conns : \E frame \in InboundFrames : PreJoinRead(c, frame)
    \/ \E c \in Conns : PreJoinEof(c)
    \/ \E c \in Conns : RoomListReply(c)
    \/ \E c \in Conns : JoinReply(c)
    \/ \E c \in Conns : HistoryReply(c)
    \/ \E c \in Conns : \E frame \in InboundFrames : JoinedRead(c, frame)
    \/ \E c \in Conns : JoinedEof(c)
    \/ \E c \in Conns : MembersReply(c)
    \/ \E c \in Conns : DriverExit(c)
    \/ \E c \in Conns : PushMailbox(c)
    \/ \E c \in Conns : PushBroadcast(c)
    \/ \E c \in Conns : PushLag(c)
    \/ \E c \in Conns : PushClose(c)
    \/ \E c \in Conns : PushWriteErr(c)
    \/ HubJoinRoom
    \/ HubSendMsg
    \/ HubLeaveRoom
    \/ HubGetRoomList
    \/ HubGetMembers
    \/ HubGetHistory
    \/ Tick

InitListener == InitHub
SpecListener == InitListener /\ [][NextListener]_vars

(* a room with a long history: a user has joined room "a" and sent a number
   of messages, each of which was delivered to it, and stays connected while
   the other connection joins *)

\* longest history the room starts with
MaxHistoryLen == 33
\* config.rs 27: Config::default().history_limit
DefaultHistoryLimit == 100
\* hub.rs 67: slots of a room's broadcast channel
BroadcastCapacity == 128

\* the messages of the room's first user
EarlierMessages(n) == [i \in 1..n |-> NewMessage("a", "alice", "x", 0)]

\* what the room has broadcast so far: the Join of its first user, then the
\* messages
EarlierLog(n) == <<UserJoined("a", "alice")>> \o EarlierMessages(n)

\* the history lengths the room starts with: none, one, and the longest
HistoryLens == {0, 1, MaxHistoryLen}

\* the requests the clients send in these behaviours: the newcomer joins the
\* room under a name of its own, and those in the room write to it
JoinFrames == {EncodeRequest(Join("a", n)) : n \in Names \ {"alice"}}
MessageFrames == {EncodeRequest(Message("a", t)) : t \in Texts}

InitReplay ==
    /\ draft = "hub"
    /\ history_limit = DefaultHistoryLimit
    /\ room_ttl_secs = TtlSecs
    /\ now = 0
    /\ ncmds = 0
    /\ task = [r \in Rooms |-> "none"]
    /\ observed = [c \in Conns |-> << >>]
    /\ resp = NoResp
    /\ empty_since = [r \in Rooms |-> None]
    /\ hub_rx = << >>
    /\ nreqs = 0
    /\ answered = [c \in Conns |-> << >>]
    /\ CodecIdle
    /\ PoolIdle
    /\ \E n \in HistoryLens :
          /\ rooms = ("a" :> [Room_new EXCEPT !.tx = EarlierLog(n),
                                              !.members = {"alice"},
                                              !.history = EarlierMessages(n)])
          /\ sent = [r \in Rooms |-> IF r = "a" THEN EarlierMessages(n) ELSE << >>]
          /\ rx = [c \in Conns |->
                    IF c = 1
                    THEN [Subscribe(<< >>, "a", "alice") EXCEPT !.next = n + 2]
                    ELSE NoRx]
          /\ conn = [c \in Conns |->
                    IF c = 1
                    THEN [NewConn EXCEPT !.pc = "joined",
                                         !.req = IF n = 0 THEN "Join" ELSE "Message",
                                         !.room = "a", !.name = "alice",
                                         !.push_task = "running", !.started = TRUE]
                    ELSE NewConn]
          /\ ws_sender = [c \in Conns |->
                    IF c = 1
                    THEN [i \in 1..(n + 1) |->
                            [by |-> "push", via |-> "broadcast",
                             frame |-> Encode(EarlierLog(n)[i])]]
                    ELSE << >>]

NextReplay ==
    \/ \E c \in Conns : \E frame \in JoinFrames : PreJoinRead(c, frame)
    \/ \E c \in Conns : JoinReply(c)
    \/ \E c \in Conns : HistoryReply(c)
    \/ \E c \in Conns : \E frame \in MessageFrames : JoinedRead(c, frame)
    \/ \E c \in Conns : PushMailbox(c)
    \/ \E c \in Conns : PushBroadcast(c)
    \/ \E c \in Conns : PushLag(c)
    \/ HubJoinRoom
    \/ HubSendMsg
    \/ HubGetHistory

SpecReplay == InitReplay /\ [][NextReplay]_vars

(* ------------------------------ claims -------------------------------- *)

Min(a, b) == IF a < b THEN a ELSE b

\* the last n elements of seq, in order
LastN(seq, n) == IF Len(seq) <= n THEN seq ELSE SubSeq(seq, Len(seq) - n + 1, Len(seq))

\* the event a stored or broadcast value stands for: hub.rs keeps events,
\* room.rs keeps their frames
EventOf(x) == IF draft = "hub" THEN x ELSE Decode(x)

\* the frame a holder of a receiver gets for a broadcast value
WireOf(x) == IF draft = "hub" THEN Encode(x) ELSE x

\* the values of a sequence
Range(seq) == {seq[i] : i \in DOMAIN seq}

\* C1: in every reachable state, every room's history holds at most
\* history_limit entries (history_limit = 0 included)
C1_HistoryBounded ==
    \A r \in DOMAIN rooms : Len(rooms[r].history) <= history_limit

\* a room whose ring is full and has evicted a message
C1_Witness ==
    \E r \in DOMAIN rooms :
        /\ history_limit >= 1
        /\ Len(sent[r]) > history_limit
        /\ Len(rooms[r].history) = history_limit

C3_HistoryOnlyChat ==
    \A r \in DOMAIN rooms :
        /\ Len(rooms[r].history) = Min(history_limit, Len(sent[r]))
        /\ \A x \in Range(rooms[r].history) :
              /\ EventOf(x).type = "NewMessage"
              /\ EventOf(x) \in Range(sent[r])

\* a room that broadcast a UserJoined and a UserLeft and recorded a message
C3_Witness ==
    \E r \in DOMAIN rooms :
        /\ rooms[r].history # << >>
        /\ \E x \in Range(rooms[r].tx) : EventOf(x).type = "UserJoined"
        /\ \E x \in Range(rooms[r].tx) : EventOf(x).type = "UserLeft"

C5_RoomJoinerSeesOwnJoin ==
    draft = "room" =>
        \A c \in Conns :
            rx[c] # NoRx =>
                LET tx == rooms[rx[c].room].tx
                IN  /\ rx[c].from <= Len(tx)
                    /\ Decode(tx[rx[c].from]) = UserJoined(rx[c].room, rx[c].name)

\* C6: a Leave for a name that is not a member changes neither members nor
\* history and broadcasts nothing
C6_LeaveIdempotent ==
    [][\A room \in Rooms, name \in Names :
          ( /\ LeaveRoom(room, name) \/ RoomLeave(room, name)
            /\ room \in DOMAIN rooms
            /\ name \notin rooms[room].members )
          => /\ rooms'[room].members = rooms[room].members
             /\ rooms'[room].history = rooms[room].history
             /\ rooms'[room].tx = rooms[room].tx]_vars

\* a room is idle past its TTL: it has had no members for longer than room_ttl
IdlePastTtl(r) ==
    /\ empty_since[r] # None
    /\ now - empty_since[r][1] > room_ttl_secs

\* C7: a GetRoomList reply names no room that has been without members for
\* longer than room_ttl
C7_ExpiredRoomNotListed ==
    resp.kind = "RoomList" =>
        \A r \in Rooms : IdlePastTtl(r) => r \notin Range(resp.value)

\* C8: a room task exits by TTL, or a room leaves the Hub's map, only when
\* the room has no member and has been empty for longer than room_ttl
C8_RemovedOnlyWhenIdle ==
    [][\A r \in Rooms :
          ( \/ r \in DOMAIN rooms /\ r \notin DOMAIN rooms'
            \/ task[r] # "expired" /\ task'[r] = "expired" )
          => /\ rooms[r].members = {}
             /\ IdlePastTtl(r)]_vars

\* a room task that took a message, was emptied by a Leave, and was ended by
\* its sweep
C8_Witness ==
    \E r \in Rooms : task[r] = "expired" /\ sent[r] # << >>

\* C9: a room with members has last_empty_at = none
C9_MembersImplyNotIdle ==
    \A r \in DOMAIN rooms : rooms[r].members # {} => rooms[r].last_empty_at = None

\* the only room was idle while the clock advanced and has been joined again
C9_Witness ==
    /\ now > 0
    /\ \E r \in Rooms : DOMAIN rooms = {r} /\ rooms[r].members # {}

\* the frames of NewMessage events among frames
ChatFrames(frames) == SelectSeq(frames, LAMBDA f : f[1] = "NewMessage")

\* seq occurs in whole as one block
IsBlockOf(block, whole) ==
    \E k \in 0..(Len(whole) - Len(block)) :
        \A i \in DOMAIN block : block[i] = whole[k + i]

C11_HistoryBeforeLive ==
    \A c \in Conns :
        (\E i \in DOMAIN ws_sender[c] : ws_sender[c][i].via = "broadcast") =>
            \A f \in Range(conn[c].msg_rx) : f[1] # "NewMessage"

\* C12: when the transport of a client that sent Leave for its own room is
\* closed, its own UserLeft has been written to it before the close frame
C12_LeaverSeesOwnLeft ==
    \A c \in Conns :
        ( /\ conn[c].close_rx = "sent"
          /\ conn[c].arg = conn[c].room
          /\ \E i \in DOMAIN ws_sender[c] : ws_sender[c][i].via = "close" )
        => \E i \in DOMAIN ws_sender[c] :
              ws_sender[c][i].frame = Encode(UserLeft(conn[c].room, conn[c].name))

\* C13: a command naming a room that is not in the hub's map never creates
\* it: SendMsg and LeaveRoom change nothing of the hub's state and broadcast
\* nothing, GetMembers and GetHistory reply with an empty vector; the map
\* grows only by JoinRoom
C13_AbsentRoomCommands ==
    [][ /\ ( /\ hub_rx # << >>
             /\ Head(hub_rx).room \notin DOMAIN rooms
             /\ HubSendMsg \/ HubLeaveRoom )
           => UNCHANGED <<rooms, rx, conn, ws_sender, sent, empty_since>>
        /\ ( /\ hub_rx # << >>
             /\ Head(hub_rx).room \notin DOMAIN rooms
             /\ HubGetMembers \/ HubGetHistory )
           => /\ conn'[Head(hub_rx).c].reply = Some(<< >>)
              /\ UNCHANGED <<rooms, rx>>
        /\ (DOMAIN rooms' # DOMAIN rooms) => HubJoinRoom ]_vars

\* the hub has answered GetMembers for a room that is not in its map, while
\* another room is
C13_Witness ==
    /\ rooms # << >>
    /\ \E c \in Conns :
          /\ conn[c].pc = "members_wait"
          /\ conn[c].arg \notin DOMAIN rooms
          /\ conn[c].reply = Some(<< >>)

\* C14: two connections that joined the same room, none having left it, are
\* members of one room and hold receivers of its one channel: both names are
\* in its members, and each receiver starts at its own UserJoined, at
\* different positions of the same sequence
C14_TwoJoinsOneRoom ==
    \A c1, c2 \in Conns :
        ( /\ c1 # c2
          /\ rx[c1] # NoRx /\ rx[c2] # NoRx
          /\ rx[c1].room = rx[c2].room
          /\ \A ev \in Range(rooms[rx[c1].room].tx) : ev.type # "UserLeft" )
        => LET room_ref == rooms[rx[c1].room]
           IN  /\ {rx[c1].name, rx[c2].name} \subseteq room_ref.members
               /\ rx[c1].from # rx[c2].from
               /\ \A c \in {c1, c2} :
                     /\ rx[c].from <= Len(room_ref.tx)
                     /\ room_ref.tx[rx[c].from] = UserJoined(rx[c].room, rx[c].name)

\* both connections have joined the same room under different names, the
\* second while the first was still waiting for its history
C14_Witness ==
    /\ rx[1] # NoRx /\ rx[2] # NoRx
    /\ rx[1].room = rx[2].room
    /\ rx[1].name # rx[2].name
    /\ Cardinality(rooms[rx[1].room].members) = 2
    /\ conn[1].pc = "hist_wait"

\* C15: a Leave, Message or Members read before the connection's Join is
\* ignored: the driver sends no command to the hub, writes no frame, stays in
\* its wait-for-Join loop, and the hub's rooms and subscriptions are untouched
C15_PreJoinIgnores ==
    [][\A c \in Conns, frame \in InboundFrames :
          ( /\ PreJoinRead(c, frame)
            /\ DecodeRequest(frame).type \in {"Leave", "Message", "Members"} )
          => /\ conn'[c].pc = "prejoin"
             /\ UNCHANGED <<hub_rx, ws_sender, rooms, rx, sent>>]_vars

\* a connection that has not joined sent a Message for a room another
\* connection is in; nothing was queued for the hub and nothing written
C15_Witness ==
    /\ conn[1].pc = "joined"
    /\ conn[2].pc = "prejoin"
    /\ conn[2].req = "Message"
    /\ hub_rx = << >>
    /\ ws_sender[2] = << >>

\* C16: the reply to a RoomList request read before Join names exactly the
\* rooms of the hub's map that have not been idle past their TTL; the driver
\* writes it as one RoomList frame and is back in its wait-for-Join loop, and
\* no room is joined or created
C16_RoomListPruned ==
    [][ /\ HubGetRoomList =>
              /\ Range(conn'[Head(hub_rx).c].reply[1]) =
                     {r \in DOMAIN rooms : ~IdlePastTtl(r)}
              /\ UNCHANGED <<rooms, rx>>
        /\ \A c \in Conns :
              RoomListReply(c) =>
                  /\ ws_sender'[c] = Append(ws_sender[c],
                         [by |-> "driver", via |-> "direct",
                          frame |-> Encode(RoomList(conn[c].reply[1]))])
                  /\ conn'[c].pc = "prejoin"
                  /\ conn'[c].room = ""
                  /\ UNCHANGED <<rooms, rx, hub_rx>> ]_vars

\* C17: a Join or RoomList read in the main loop is ignored: the driver sends
\* no command to the hub, no frame is written or queued for the client, the
\* room and name captured at Join are kept and the driver stays in the loop
C17_JoinedIgnores ==
    [][\A c \in Conns, frame \in InboundFrames :
          ( /\ JoinedRead(c, frame)
            /\ DecodeRequest(frame).type \in {"Join", "RoomList"} )
          => /\ conn'[c].pc = "joined"
             /\ conn'[c].room = conn[c].room
             /\ conn'[c].name = conn[c].name
             /\ conn'[c].msg_rx = conn[c].msg_rx
             /\ UNCHANGED <<hub_rx, ws_sender, rooms, rx>>]_vars

\* a joined connection whose last request was RoomList: it is still in its
\* main loop, nothing is queued for the hub, and its transport holds only
\* what the push task wrote
C17_Witness ==
    /\ conn[1].pc = "joined"
    /\ conn[1].req = "RoomList"
    /\ conn[1].room # ""
    /\ hub_rx = << >>
    /\ ws_sender[1] # << >>
    /\ \A i \in DOMAIN ws_sender[1] : ws_sender[1][i].by = "push"

\* C18: once a connection's push task exists, the driver is at no point of
\* its code that writes to the transport, and every frame written after the
\* push task's first was written by the push task
C18_SingleWriter ==
    \A c \in Conns :
        /\ conn[c].push_task # "none" => conn[c].pc # "list_wait"
        /\ \A i, j \in DOMAIN ws_sender[c] :
              (i < j /\ ws_sender[c][i].by = "push") => ws_sender[c][j].by = "push"

\* a connection whose driver wrote a RoomList frame before Join and whose
\* push task then wrote the MemberList asked for in the main loop
C18_Witness ==
    /\ ws_sender[1] # << >>
    /\ ws_sender[1][1].by = "driver"
    /\ conn[1].pc = "joined"
    /\ \E i \in DOMAIN ws_sender[1] :
          /\ ws_sender[1][i].by = "push"
          /\ ws_sender[1][i].frame[1] = "MemberList"

\* the MemberList frames among frames
MemberListFrames(frames) == SelectSeq(frames, LAMBDA f : f[1] = "MemberList")

\* frame is the MemberList of the room a query named, listing each of the
\* members the room had when the hub served the query once
IsMemberListOf(frame, query) ==
    /\ frame[1] = "MemberList"
    /\ frame[3] = query.room
    /\ Len(frame) = 4 + Cardinality(query.members)
    /\ {frame[i] : i \in 5..Len(frame)} = query.members

C20_DecodeFailureIsLocal ==
    [][\A c \in Conns :
       \A frame \in {f \in InboundFrames : DecodeRequest(f) = DecodeErr} :
          (PreJoinRead(c, frame) \/ JoinedRead(c, frame))
          => /\ conn'[c].pc = "failed"
             /\ \A d \in Conns \ {c} : conn'[d] = conn[d]
             /\ UNCHANGED <<hub_rx, ws_sender, rooms, rx, sent, empty_since,
                            answered>>]_vars

\* the first connection failed on its first frame; the second then joined,
\* sent a message through the hub and received it as a broadcast
C20_Witness ==
    /\ conn[1].pc = "failed"
    /\ conn[1].req = "Err"
    /\ conn[1].room = ""
    /\ \E i \in DOMAIN ws_sender[2] :
          /\ ws_sender[2][i].via = "broadcast"
          /\ ws_sender[2][i].frame[1] = "NewMessage"

\* C21: a driver that has left its main loop, by Leave or by the end of the
\* stream, and waits for its push task has given the task its close signal
\* (without it the task ends only when a later frame fails to be written)
C21_PushTaskCancelled ==
    \A c \in Conns :
        (conn[c].pc = "await_push" /\ conn[c].push_task = "running") =>
            conn[c].close_rx # "open"

\* C22: a push loop goes on forwarding after its receiver lagged: it is never
\* left waiting on its empty mailbox alone while the channel holds frames its
\* receiver has not yet taken
C22_LagRecoverable ==
    \A c \in Conns :
        ( /\ conn[c].push_task = "running"
          /\ rx[c] # NoRx
          /\ rx[c].lagged
          /\ conn[c].msg_rx = << >>
          /\ rx[c].next <= Len(rooms[rx[c].room].tx) )
        => ~rx[c].stalled

\* C23: a room task whose command channel is closed exits: it is never left
\* running in a state in which its only remaining way out, the TTL sweep, can
\* never fire (members and last_empty_at change by commands alone)
C23_ClosedTaskExits ==
    \A r \in Rooms :
        task[r] = "cmd_closed" =>
            /\ rooms[r].members = {}
            /\ rooms[r].last_empty_at # None

\* C29: the name a connection captured at its Join never changes afterwards,
\* and every SendMsg a connection has sent to the hub carries a NewMessage for
\* the requested room under that name, with a reading of the server's clock
C29_MessageUnderOwnName ==
    [][ /\ \A c \in Conns : conn[c].name # "" => conn'[c].name = conn[c].name
        /\ \A i \in DOMAIN hub_rx' :
              hub_rx'[i].cmd = "SendMsg" =>
                  /\ hub_rx'[i].event.type = "NewMessage"
                  /\ hub_rx'[i].event.room = hub_rx'[i].room
                  /\ hub_rx'[i].event.name = conn'[hub_rx'[i].c].name
                  /\ hub_rx'[i].event.name # ""
                  /\ hub_rx'[i].event.ts \in Stamps ]_vars

\* two connections joined under different names; the first has sent a
\* Message, and the SendMsg queued for the hub is under the first one's name
C29_Witness ==
    /\ conn[1].req = "Message"
    /\ conn[2].name # ""
    /\ conn[2].name # conn[1].name
    /\ \E i \in DOMAIN hub_rx :
          /\ hub_rx[i].cmd = "SendMsg"
          /\ hub_rx[i].c = 1
          /\ hub_rx[i].event.name = conn[1].name

\* C30: a Leave processed while the room has no member leaves last_empty_at
\* as it was (neither setting nor renewing it)
C30_LeaveOnEmptyKeepsClock ==
    [][\A room \in Rooms, name \in Names :
          ( /\ LeaveRoom(room, name) \/ RoomLeave(room, name)
            /\ room \in DOMAIN rooms
            /\ rooms[room].members = {} )
          => rooms'[room].last_empty_at = rooms[room].last_empty_at]_vars

\* C28: what the JSON text of a ClientRequest or ServerEvent value decodes to
\* is that value
C28_RoundTrip ==
    codec.pc = "back" => codec.back = codec.value

\* a NewMessage with a ts of several digits, a room that reads like a key and
\* a text that reads like a number has been encoded and decoded
C28_Witness ==
    /\ codec.pc = "back"
    /\ codec.side = "event"
    /\ codec.value.type = "NewMessage"
    /\ codec.value.ts = 1234567890
    /\ codec.value.room = "room"
    /\ codec.value.text = "0"
    /\ Len(codec.wire[9]) = 10

\* C24: alloc(size) returns a buffer of length 0 and capacity at least size;
\* when the pool holds a retired buffer of capacity at least size it hands one
\* of them out, takes it out of the pool and allocates nothing; otherwise it
\* makes a new allocation and the pool's retired buffers stay as they are
C24_AllocContract ==
    [][\A h \in Holders, size \in 0..MaxSize :
        Alloc(h, size) =>
          LET got == bufs'[h]
              fit == {k \in SlabKeys(slabs) : slabs.entries[k + 1].buf.cap >= size}
          IN  /\ got.state = "held"
              /\ got.buf.len = 0
              /\ got.buf.cap >= size
              /\ fit # {} =>
                    /\ got.key \in fit
                    /\ got.buf = slabs.entries[got.key + 1].buf
                    /\ SlabKeys(slabs') = SlabKeys(slabs) \ {got.key}
                    /\ heap' = heap
              /\ fit = {} =>
                    /\ SlabKeys(slabs') = SlabKeys(slabs)
                    /\ \A k \in SlabKeys(slabs) : slabs'.entries[k + 1] = slabs.entries[k + 1]
                    /\ size > 0 => /\ heap[got.buf.id].state = "unused"
                                   /\ heap'[got.buf.id].state = "live"
    ]_vars

\* C24 witness: a holder has been handed, cleared, a buffer that was written
\* to and retired before
C24_Witness ==
    \E h \in Holders :
        /\ bufs[h].state = "held"
        /\ bufs[h].buf.id # 0
        /\ bufs[h].buf.len = 0
        /\ heap[bufs[h].buf.id].state = "live"
        /\ heap[bufs[h].buf.id].bytes # << >>

\* the allocations held by the pool's retired buffers
Pooled(sl) == {sl.entries[k + 1].buf.id : k \in SlabKeys(sl)} \ {0}

\* C25: whenever a buffer is dropped or recycled without freeze, its storage
\* is in the pool afterwards, however many buffers are outstanding
C25_DroppedIsPooled ==
    [][\A h \in Holders :
        (DropBuf(h) /\ bufs[h].buf.id # 0) => bufs[h].buf.id \in Pooled(slabs')
    ]_vars

\* C26: when the last reference to a frozen frame is dropped, the frame's
\* storage is in the pool, where a later alloc finds it
C26_FrameStorageRecycled ==
    [][\A h \in Holders :
        (DropFrame(h) /\ frozen[h].refs = 1 /\ frozen[h].id # 0)
            => frozen[h].id \in Pooled(slabs')
    ]_vars

\* C27: a frame is one serialization shared by all its references (the clone
\* sent on the channel and the one kept in history): as long as a reference
\* is left, the frame reads the bytes it was frozen with, whatever the pool
\* has handed out or taken back since
C27_FrameBytesStable ==
    \A h \in Holders :
        frozen[h].refs >= 1 =>
            /\ Read(heap, frozen[h].id, frozen[h].len) = frozen[h].json
            /\ frozen[h].id # 0 => /\ heap[frozen[h].id].state = "live"
                                   /\ frozen[h].id \notin Pooled(slabs)
                                   /\ \A g \in Holders :
                                         bufs[g].state = "held" => bufs[g].buf.id # frozen[h].id

\* C27 witness: the frame of a chat message is held by the channel and the
\* history while another buffer, allocated from the pool, has been written
C27_Witness ==
    \E h, g \in Holders :
        /\ frozen[h].refs = 2
        /\ frozen[h].json = Encode(NewMessage("a", "alice", "x", 0))
        /\ bufs[g].state = "held"
        /\ bufs[g].buf.len = 1
        /\ SlabKeys(slabs) # {}

\* the NewMessage frames written to a transport
ChatWritten(c) == SelectSeq(ws_sender[c], LAMBDA w : w.frame[1] = "NewMessage")

\* C32: a connection receives each NewMessage at most once: it is never
\* written more NewMessage frames than the hub has processed messages for
\* the room it joined
C32_AtMostOnce ==
    \A c \in Conns :
        conn[c].room # "" => Len(ChatWritten(c)) <= Len(sent[conn[c].room])

C37_SubscribedRoomNotEmpty ==
    (\A d \in Conns : conn[d].req = "Leave" => conn[d].arg = conn[d].room)
    => \A c \in Conns :
         ( /\ conn[c].pc \in {"joined", "members_wait"}
           /\ rx[c] # NoRx
           /\ rx[c].room = conn[c].room )
         => /\ rooms[conn[c].room].members # {}
            /\ rooms[conn[c].room].last_empty_at = None

\* C31: entry to the main loop always completes: a joining connection is
\* never left waiting for room in its mailbox, its history only partly
\* queued and no push task spawned yet to take from it
C31_ReplayCompletes ==
    \A c \in Conns : conn[c].pc # "replay"

\* C33: a joining connection that does not lag misses no message: no
\* connection is blocked before its push task exists while a NewMessage the
\* hub processed after its JoinRoom waits in its receiver, within the slots
\* of the channel
C33_NoMessageMissed ==
    \A c \in Conns :
        ~( /\ conn[c].pc = "replay"
           /\ conn[c].push_task = "none"
           /\ rx[c] # NoRx
           /\ Len(rooms[rx[c].room].tx) - rx[c].next + 1 <= BroadcastCapacity
           /\ \E i \in rx[c].next..Len(rooms[rx[c].room].tx) :
                 rooms[rx[c].room].tx[i].type = "NewMessage" )

====
